---- MODULE Spec2Model ----
(***************************************************************************)
(* Model of the request-authentication and caching core of the            *)
(* cf-workers-s3-proxy worker: canonical query strings, signed URLs and   *)
(* list prefixes (lib/utils.ts, lib/security.ts), cache keys,             *)
(* time-to-live, conditional requests and the hybrid cache with           *)
(* its retrying origin fetch (lib/cache.ts, lib/aws-client.ts), and the   *)
(* routes that use them (routes/files.ts, routes/list.ts,                 *)
(* routes/cache.ts).                                                      *)
(*                                                                         *)
(* A JavaScript string is a sequence of character codes (7-bit ASCII);    *)
(* Str turns a tuple of one-character strings into that form.             *)
(***************************************************************************)
EXTENDS Integers, Sequences, FiniteSets, TLC

VARIABLES
    \* ---- signed URLs (SpecSig) ----
    sgSecret,     \* the worker's URL_SIGNING_SECRET
    sgIssued,     \* the URL the issuer produced
    sgUrl,        \* the URL presented to verifySignature
    sgTamper,     \* how sgUrl differs from sgIssued
    sgNow,        \* Date.now(), milliseconds
    sgResult,     \* outcome of the last verifySignature call and its time
    \* ---- cache keys (SpecKey) ----
    ckA, ckB,     \* two requests: url, headers, version
    ckKeyA, ckKeyB,
    \* ---- time-to-live (SpecTtl) ----
    ttlConfig,    \* a CacheConfig
    ttlResponse,  \* an origin response
    ttlNow,       \* Date.now(), milliseconds
    ttlResult,    \* what calculateTtl returned for them
    \* ---- conditional requests (SpecCond) ----
    cdConditions, \* If-None-Match and If-Modified-Since of a request
    cdCached,     \* the cached entry
    cdResult,     \* what createConditionalResponse returned for them
    \* ---- list prefixes (SpecPrefix) ----
    pxEnv,        \* PREFIX_MAX_LENGTH and PREFIX_MAX_DEPTH
    pxPrefix,     \* the prefix query parameter
    pxResult,     \* what validateAndSanitizePrefix returned or threw
    \* ---- canonical query strings (SpecCanon) ----
    cqParams,     \* the query parameters, in the order of the URL
    cqResult,     \* the canonical query string of cqParams
    cqFirst,      \* the canonical query string of the first ordering seen
    \* ---- the retry loops (SpecRetry) ----
    rtVia,        \* the loop: performFetchWithRetry or s3Fetch
    rtHeaders,    \* the headers of the fetch
    rtAttempts,   \* the number of attempts asked for
    rtAttempt,    \* the attempt counter of the loop
    rtPc,         \* where the loop is
    rtTrace,      \* the attempts made and the sleeps slept, in order
    \* ---- start-up validation (SpecStart) ----
    evCalls,        \* calls of ensureEnvironmentValidated so far
    evValidations,  \* runs of validateEnvironment so far
    evLast,         \* how the last call ended
    \* ---- the worker (Spec, SpecAdmin, SpecOrch, SpecRace) ----
    env,                      \* the environment bindings
    isEnvironmentValidated,   \* the isolate-level validation flag
    now,                      \* Date.now(), milliseconds
    cacheStore,               \* caches.default: cache key -> stored response
    pendingPuts,              \* cache.put calls issued and not yet settled
    lastPut,                   \* the write applied to the store last
    \* per request in flight (a function of the request's slot):
    req,                      \* the request
    pc,                       \* where its handler stands
    access,                   \* outcome and time of its access check
    lookedUp,                 \* the Cache API was consulted for it
    matched,                  \* what cache.match gave for it
    attempt,                  \* loop counter of the retry loop
    lastErr,                  \* the error of the last failed attempt
    fetchLog,                 \* outcomes of its origin attempts, in order
    puts,                     \* the cache.put calls made for it
    fetchResult,              \* what cachedS3Fetch returned or threw
    response,                 \* its response
    executed                  \* cache operation carried out for it

sigVars == <<sgSecret, sgIssued, sgUrl, sgTamper, sgNow, sgResult>>
keyVars == <<ckA, ckB, ckKeyA, ckKeyB>>
ttlVars == <<ttlConfig, ttlResponse, ttlNow, ttlResult>>
condVars == <<cdConditions, cdCached, cdResult>>
prefixVars == <<pxEnv, pxPrefix, pxResult>>
canonVars == <<cqParams, cqResult, cqFirst>>
retryVars == <<rtVia, rtHeaders, rtAttempts, rtAttempt, rtPc, rtTrace>>
startVars == <<evCalls, evValidations, evLast>>
libVars == <<condVars, prefixVars, canonVars, startVars, retryVars>>
isolateVars == <<env, isEnvironmentValidated, now, cacheStore, pendingPuts, lastPut>>
requestVars == <<req, pc, access, lookedUp, matched, attempt, lastErr, fetchLog, puts,
                 fetchResult, response, executed>>
workerVars == <<isolateVars, requestVars>>
vars == <<sigVars, keyVars, ttlVars, libVars, workerVars>>

-----------------------------------------------------------------------------
(* Strings *)

Ascii ==
    <<" ", "!", "\"", "#", "$", "%", "&", "'", "(", ")", "*", "+", ",", "-", ".", "/",
      "0", "1", "2", "3", "4", "5", "6", "7", "8", "9", ":", ";", "<", "=", ">", "?",
      "@", "A", "B", "C", "D", "E", "F", "G", "H", "I", "J", "K", "L", "M", "N", "O",
      "P", "Q", "R", "S", "T", "U", "V", "W", "X", "Y", "Z", "[", "\\", "]", "^", "_",
      "grave", "a", "b", "c", "d", "e", "f", "g", "h", "i", "j", "k", "l", "m", "n", "o",
      "p", "q", "r", "s", "t", "u", "v", "w", "x", "y", "z", "{", "|", "}", "~">>

\* The code of a printable character (Ascii[1] is the space, code 32; the
\* entry of code 96 is a placeholder, the grave accent is not used).
CodeTable == [c \in {Ascii[i] : i \in 1..Len(Ascii)} |->
                 31 + (CHOOSE i \in 1..Len(Ascii) : Ascii[i] = c)]

Code(c) == CodeTable[c]

Str(t) == [i \in 1..Len(t) |-> Code(t[i])]

\* The value a lookup yields when there is nothing (null / undefined).
Null == <<0 - 1>>

IsTruthy(s) == s # Null /\ s # <<>>

IsDigit(c) == c >= Code("0") /\ c <= Code("9")
IsLower(c) == c >= Code("a") /\ c <= Code("z")
IsUpper(c) == c >= Code("A") /\ c <= Code("Z")

\* String.prototype.toLowerCase on ASCII.
ToLowerCase(s) == [i \in 1..Len(s) |-> IF IsUpper(s[i]) THEN s[i] + 32 ELSE s[i]]

RECURSIVE Join(_, _)
Join(parts, sep) ==
    IF parts = <<>> THEN <<>>
    ELSE IF Len(parts) = 1 THEN parts[1]
    ELSE parts[1] \o sep \o Join(Tail(parts), sep)

RECURSIVE Flatten(_)
Flatten(parts) == IF parts = <<>> THEN <<>> ELSE parts[1] \o Flatten(Tail(parts))

\* s.includes(t)
Includes(s, t) ==
    \E i \in 1..(Len(s) - Len(t) + 1) : SubSeq(s, i, i + Len(t) - 1) = t

StartsWith(s, t) == Len(s) >= Len(t) /\ SubSeq(s, 1, Len(t)) = t

\* Number.prototype.toString() of a non-negative integer.
RECURSIVE NumberToString(_)
NumberToString(n) ==
    IF n < 10 THEN <<Code("0") + n>>
    ELSE NumberToString(n \div 10) \o <<Code("0") + (n % 10)>>

RECURSIVE DigitsValue(_)
DigitsValue(s) ==
    IF s = <<>> THEN 0
    ELSE 10 * DigitsValue(SubSeq(s, 1, Len(s) - 1)) + (s[Len(s)] - Code("0"))

\* Number(string) on the strings of the model: a string of decimal digits is
\* its value, every other string the model uses is NaN.
ToNumber(s) ==
    IF s # <<>> /\ \A i \in 1..Len(s) : IsDigit(s[i])
    THEN [nan |-> FALSE, val |-> DigitsValue(s)]
    ELSE [nan |-> TRUE, val |-> 0]

UpperHexDigits == Str(<<"0","1","2","3","4","5","6","7","8","9","A","B","C","D","E","F">>)
LowerHexDigits == Str(<<"0","1","2","3","4","5","6","7","8","9","a","b","c","d","e","f">>)

-----------------------------------------------------------------------------
(* lib/utils.ts: the canonicalizer *)

\* encodeURIComponent leaves A-Z a-z 0-9 - _ . ! ~ * ' ( ) alone;
\* rfc3986Encode then escapes ! ' ( ) * as well.
IsUnreserved(c) ==
    \/ IsDigit(c) \/ IsLower(c) \/ IsUpper(c)
    \/ c \in {Code("-"), Code("_"), Code("."), Code("~")}

PercentEncode(c) ==
    <<Code("%"), UpperHexDigits[(c \div 16) + 1], UpperHexDigits[(c % 16) + 1]>>

rfc3986Encode(str) ==
    Flatten([i \in 1..Len(str) |->
        IF IsUnreserved(str[i]) THEN <<str[i]>> ELSE PercentEncode(str[i])])

\* String.prototype.localeCompare with the default (root) collation, on
\* printable ASCII: punctuation sorts before digits, digits before letters,
\* letters are compared without case first, and only when two strings are
\* equal up to case does lower case sort before upper case.
CollationOrder ==
    Str(<<" ", "_", "-", ",", ";", ":", "!", "?", ".", "'", "\"", "(", ")", "[", "]",
          "{", "}", "@", "*", "/", "\\", "&", "#", "%", "^", "+", "<", "=", ">",
          "|", "~", "$", "0", "1", "2", "3", "4", "5", "6", "7", "8", "9">>)

PrimaryWeight(c) ==
    IF IsLower(c) THEN 100 + (c - Code("a"))
    ELSE IF IsUpper(c) THEN 100 + (c - Code("A"))
    ELSE CHOOSE i \in 1..Len(CollationOrder) : CollationOrder[i] = c

TertiaryWeight(c) == IF IsUpper(c) THEN 1 ELSE 0

\* Lexicographic comparison of two sequences of integers: -1, 0 or 1.
RECURSIVE LexCompare(_, _)
LexCompare(a, b) ==
    IF a = <<>> /\ b = <<>> THEN 0
    ELSE IF a = <<>> THEN 0 - 1
    ELSE IF b = <<>> THEN 1
    ELSE IF a[1] < b[1] THEN 0 - 1
    ELSE IF a[1] > b[1] THEN 1
    ELSE LexCompare(Tail(a), Tail(b))

localeCompare(a, b) ==
    LET pa == [i \in 1..Len(a) |-> PrimaryWeight(a[i])]
        pb == [i \in 1..Len(b) |-> PrimaryWeight(b[i])]
        p  == LexCompare(pa, pb)
    IN  IF p # 0 THEN p
        ELSE LexCompare([i \in 1..Len(a) |-> TertiaryWeight(a[i])],
                        [i \in 1..Len(b) |-> TertiaryWeight(b[i])])

\* Array.prototype.sort is stable: an element is placed after every element
\* that does not compare greater than it.
RECURSIVE InsertByLocale(_, _)
InsertByLocale(sorted, p) ==
    IF sorted = <<>> THEN <<p>>
    ELSE IF localeCompare(sorted[1].name, p.name) <= 0
         THEN <<sorted[1]>> \o InsertByLocale(Tail(sorted), p)
         ELSE <<p>> \o sorted

RECURSIVE SortByLocale(_)
SortByLocale(params) ==
    IF params = <<>> THEN <<>>
    ELSE InsertByLocale(SortByLocale(SubSeq(params, 1, Len(params) - 1)),
                        params[Len(params)])

FilterOutName(params, excludeParam) ==
    SelectSeq(params, LAMBDA p : p.name # excludeParam)

\* A canonical query string made of the names alone.
createCanonicalQueryStringOfNames(searchParams, excludeParam) ==
    LET params == SortByLocale(FilterOutName(searchParams, excludeParam))
        encodedParams == [i \in 1..Len(params) |-> rfc3986Encode(params[i].name)]
    IN  Join(encodedParams, <<Code("&")>>)

createCanonicalQueryString(searchParams, excludeParam) ==
    LET params == SortByLocale(FilterOutName(searchParams, excludeParam))
        encodedParams == [i \in 1..Len(params) |->
            rfc3986Encode(params[i].name) \o <<Code("=")>> \o rfc3986Encode(params[i].value)]
    IN  Join(encodedParams, <<Code("&")>>)

-----------------------------------------------------------------------------
(* URL and URLSearchParams: a URL is its pathname and its list of query   *)
(* parameters, each a name and a value, in the order of the query string. *)

Param(n, v) == [name |-> n, value |-> v]

\* URLSearchParams.get: the value of the first parameter of that name.
SearchParamsGet(params, n) ==
    IF \E i \in 1..Len(params) : params[i].name = n
    THEN params[CHOOSE i \in 1..Len(params) :
                    /\ params[i].name = n
                    /\ \A j \in 1..(i - 1) : params[j].name # n].value
    ELSE Null

\* URLSearchParams.delete: every parameter of that name goes.
SearchParamsDelete(params, n) == SelectSeq(params, LAMBDA p : p.name # n)

\* URLSearchParams.set: the first parameter of that name takes the value and
\* the others of that name go; without one, the parameter is appended.
SearchParamsSet(params, n, v) ==
    IF \E i \in 1..Len(params) : params[i].name = n
    THEN LET first == CHOOSE i \in 1..Len(params) :
                          /\ params[i].name = n
                          /\ \A j \in 1..(i - 1) : params[j].name # n
         IN  SubSeq(params, 1, first - 1) \o <<Param(n, v)>>
                 \o SearchParamsDelete(SubSeq(params, first + 1, Len(params)), n)
    ELSE Append(params, Param(n, v))

-----------------------------------------------------------------------------
(* lib/security.ts: verifySignature, and the issuer of docs/security.md *)

sigName == Str(<<"s", "i", "g">>)
expName == Str(<<"e", "x", "p">>)

\* HMAC-SHA256, idealised as a keyed function without collisions: the tag
\* determines the key and the message.  (The real tag has 32 bytes; nothing
\* below depends on its length.)
Hmac(key, data) == <<Len(key)>> \o key \o data

\* byte.toString(16).padStart(2, "0"), joined
HexEncode(bytes) ==
    Flatten([i \in 1..Len(bytes) |->
        <<LowerHexDigits[(bytes[i] \div 16) + 1], LowerHexDigits[(bytes[i] % 16) + 1]>>])

IsLineTerminator(c) == c \in {10, 13}

\* providedSignature.match(/.{1,2}/g): the string cut into pieces of two
\* characters, a piece of one where a line terminator or the end follows.
RECURSIVE HexByteMatches(_)
HexByteMatches(s) ==
    IF s = <<>> THEN <<>>
    ELSE IF IsLineTerminator(s[1]) THEN HexByteMatches(Tail(s))
    ELSE IF Len(s) >= 2 /\ ~IsLineTerminator(s[2])
         THEN <<SubSeq(s, 1, 2)>> \o HexByteMatches(SubSeq(s, 3, Len(s)))
         ELSE <<SubSeq(s, 1, 1)>> \o HexByteMatches(Tail(s))

IsWhiteSpace(c) == c \in {9, 10, 11, 12, 13, 32}

HexDigitValue(c) ==
    IF IsDigit(c) THEN c - Code("0")
    ELSE IF c >= Code("a") /\ c <= Code("f") THEN c - Code("a") + 10
    ELSE IF c >= Code("A") /\ c <= Code("F") THEN c - Code("A") + 10
    ELSE 0 - 1

RECURSIVE TrimStart(_)
TrimStart(s) == IF s # <<>> /\ IsWhiteSpace(s[1]) THEN TrimStart(Tail(s)) ELSE s

RECURSIVE HexPrefixValue(_, _)
HexPrefixValue(s, acc) ==
    IF s = <<>> \/ HexDigitValue(s[1]) < 0 THEN acc
    ELSE HexPrefixValue(Tail(s), 16 * acc + HexDigitValue(s[1]))

\* Number.parseInt(hexByte, 16): leading white space is skipped, a sign and
\* a 0x prefix are taken, then the longest run of hex digits is the value;
\* without one the result is NaN.
parseIntHex(hexByte) ==
    LET t      == TrimStart(hexByte)
        neg    == t # <<>> /\ t[1] = Code("-")
        signed == t # <<>> /\ t[1] \in {Code("-"), Code("+")}
        u      == IF signed THEN Tail(t) ELSE t
        w      == IF Len(u) >= 2 /\ u[1] = Code("0") /\ u[2] \in {Code("x"), Code("X")}
                  THEN SubSeq(u, 3, Len(u)) ELSE u
    IN  IF w = <<>> \/ HexDigitValue(w[1]) < 0
        THEN [nan |-> TRUE, val |-> 0]
        ELSE [nan |-> FALSE,
              val |-> IF neg THEN 0 - HexPrefixValue(w, 0) ELSE HexPrefixValue(w, 0)]

\* new Uint8Array(numbers): NaN becomes 0, a number is taken modulo 256.
ToUint8(n) == IF n.nan THEN 0 ELSE n.val % 256

DecodeSignature(providedSignature) ==
    LET hexByteMatches == HexByteMatches(providedSignature)
    IN  [i \in 1..Len(hexByteMatches) |-> ToUint8(parseIntHex(hexByteMatches[i]))]

\* lines 25-27: Number(exp) * 1000 against Date.now(); NaN compares false.
IsExpiredOffByOne(expirationTimestamp, nowMs) ==
    LET n == ToNumber(expirationTimestamp)
    IN  ~n.nan /\ nowMs >= n.val * 1000

IsExpiredConvertedTwice(expirationTimestamp, nowMs) ==
    LET n == ToNumber(expirationTimestamp)
    IN  ~n.nan /\ nowMs > n.val * 1000 * 1000

IsExpired(expirationTimestamp, nowMs) ==
    LET n == ToNumber(expirationTimestamp)
    IN  ~n.nan /\ nowMs > n.val * 1000

\* lines 33-45: pathname, and "?" with the canonical query string when there
\* is one.
dataToSign(url) ==
    LET canonicalQueryString == createCanonicalQueryString(url.searchParams, sigName)
        hasQueryParams == Len(canonicalQueryString) > 0
    IN  IF hasQueryParams
        THEN url.pathname \o <<Code("?")>> \o canonicalQueryString
        ELSE url.pathname

\* The same construction on the issuing side (docs/security.md).
IssuerDataToSign(urlObj) ==
    LET canonicalQueryString == createCanonicalQueryString(urlObj.searchParams, sigName)
    IN  IF canonicalQueryString # <<>>
        THEN urlObj.pathname \o <<Code("?")>> \o canonicalQueryString
        ELSE urlObj.pathname

\* A verifySignature that decodes sig before it compares exp with the clock.
verifySignatureDecodingFirst(url, signingSecret, nowMs) ==
    LET providedSignature   == SearchParamsGet(url.searchParams, sigName)
        expirationTimestamp == SearchParamsGet(url.searchParams, expName)
    IN  IF ~IsTruthy(providedSignature) \/ ~IsTruthy(expirationTimestamp) THEN "missing"
        ELSE IF HexByteMatches(providedSignature) = <<>> THEN "malformed"
        ELSE IF IsExpired(expirationTimestamp, nowMs) THEN "expired"
        ELSE IF DecodeSignature(providedSignature) = Hmac(signingSecret, dataToSign(url))
             THEN "ok"
             ELSE "invalid"

\* verifySignature returns normally ("ok") or throws a 403 whose message is
\* one of: missing, expired, malformed (no hex bytes found), invalid.
verifySignature(url, signingSecret, nowMs) ==
    LET providedSignature   == SearchParamsGet(url.searchParams, sigName)
        expirationTimestamp == SearchParamsGet(url.searchParams, expName)
    IN  IF ~IsTruthy(providedSignature) \/ ~IsTruthy(expirationTimestamp) THEN "missing"
        ELSE IF IsExpired(expirationTimestamp, nowMs) THEN "expired"
        ELSE IF HexByteMatches(providedSignature) = <<>> THEN "malformed"
        ELSE IF DecodeSignature(providedSignature) = Hmac(signingSecret, dataToSign(url))
             THEN "ok"
             ELSE "invalid"

\* generateSignedUrl: exp is set to now + expiresInSeconds, the canonical
\* data is signed and the lower-case hex tag is set as sig.
generateSignedUrl(url, secret, nowMs, expiresInSeconds) ==
    LET expirationTimestamp == (nowMs \div 1000) + expiresInSeconds
        withExp == [url EXCEPT !.searchParams =
                       SearchParamsSet(@, expName, NumberToString(expirationTimestamp))]
        signatureHex == HexEncode(Hmac(secret, IssuerDataToSign(withExp)))
    IN  [withExp EXCEPT !.searchParams = SearchParamsSet(@, sigName, signatureHex)]

-----------------------------------------------------------------------------
(* lib/cache.ts: generateCacheKey *)

\* A signature list that forgets exp.
signatureParamsWithoutExp == <<sigName>>

signatureParams == <<sigName, expName>>

cacheBustingParams ==
    <<Str(<<"_">>), Str(<<"b", "u", "s", "t">>), Str(<<"n", "o", "c", "a", "c", "h", "e">>),
      Str(<<"v">>), Str(<<"v", "e", "r", "s", "i", "o", "n">>)>>

excludedParams == signatureParams \o cacheBustingParams

RECURSIVE DeleteAll(_, _)
DeleteAll(params, names) ==
    IF names = <<>> THEN params
    ELSE DeleteAll(SearchParamsDelete(params, names[1]), Tail(names))

\* URLSearchParams.sort: by name in code-unit order, stable.
RECURSIVE InsertByCodeUnits(_, _)
InsertByCodeUnits(sorted, p) ==
    IF sorted = <<>> THEN <<p>>
    ELSE IF LexCompare(sorted[1].name, p.name) <= 0
         THEN <<sorted[1]>> \o InsertByCodeUnits(Tail(sorted), p)
         ELSE <<p>> \o sorted

RECURSIVE SearchParamsSort(_)
SearchParamsSort(params) ==
    IF params = <<>> THEN <<>>
    ELSE InsertByCodeUnits(SearchParamsSort(SubSeq(params, 1, Len(params) - 1)),
                           params[Len(params)])

\* The loop of lines 85-87: every remaining parameter is set on the cache
\* URL, one after the other.
RECURSIVE SetEach(_, _)
SetEach(target, params) ==
    IF params = <<>> THEN target
    ELSE SetEach(SearchParamsSet(target, params[1].name, params[1].value), Tail(params))

\* The application/x-www-form-urlencoded serializer of URLSearchParams.
FormEncode(str) ==
    Flatten([i \in 1..Len(str) |->
        IF \/ IsDigit(str[i]) \/ IsLower(str[i]) \/ IsUpper(str[i])
           \/ str[i] \in {Code("*"), Code("-"), Code("."), Code("_")}
        THEN <<str[i]>>
        ELSE IF str[i] = Code(" ") THEN <<Code("+")>>
        ELSE PercentEncode(str[i])])

SearchParamsToString(params) ==
    Join([i \in 1..Len(params) |->
              FormEncode(params[i].name) \o <<Code("=")>> \o FormEncode(params[i].value)],
         <<Code("&")>>)

\* URL.toString() of the cache URL.
CacheUrlToString(pathname, params) ==
    Str(<<"h","t","t","p","s",":","/","/","c","a","c","h","e",".","i","n","t","e","r","n","a","l">>)
        \o pathname
        \o (IF params = <<>> THEN <<>> ELSE <<Code("?")>> \o SearchParamsToString(params))

rangeHeaderName == Str(<<"r", "a", "n", "g", "e">>)
acceptEncodingHeaderName ==
    Str(<<"a","c","c","e","p","t","-","e","n","c","o","d","i","n","g">>)
cacheHeadersParam == Str(<<"_","c","a","c","h","e","_","h","e","a","d","e","r","s">>)
cacheVersionParam == Str(<<"_","c","a","c","h","e","_","v","e","r","s","i","o","n">>)

\* headers: the values of range and accept-encoding (Null when absent);
\* version: env.VERSION (Null when unset).
generateCacheKey(url, headers, version) ==
    LET cleaned == SearchParamsSort(DeleteAll(url.searchParams, excludedParams))
        headerParts ==
            (IF IsTruthy(headers.range)
             THEN <<rangeHeaderName \o <<Code(":")>> \o headers.range>> ELSE <<>>)
            \o (IF IsTruthy(headers.acceptEncoding)
                THEN <<acceptEncodingHeaderName \o <<Code(":")>> \o headers.acceptEncoding>>
                ELSE <<>>)
        copied == SetEach(<<>>, cleaned)
        withHeaders == IF Len(headerParts) > 0
                       THEN SearchParamsSet(copied, cacheHeadersParam,
                                            Join(headerParts, <<Code("|")>>))
                       ELSE copied
        withVersion == IF IsTruthy(version)
                       THEN SearchParamsSet(withHeaders, cacheVersionParam, version)
                       ELSE withHeaders
    IN  CacheUrlToString(url.pathname, withVersion)

-----------------------------------------------------------------------------
(* Environment bindings and their validation at start-up                   *)
(* (lib/utils.ts, lib/validation.ts).  A binding that may be a JSON        *)
(* boolean or a string carries its type.                                    *)

EnvUndefined == [kind |-> "undefined", bool |-> FALSE, str |-> <<>>, num |-> 0]
EnvBoolean(b) == [kind |-> "boolean", bool |-> b, str |-> <<>>, num |-> 0]
EnvString(s) == [kind |-> "string", bool |-> FALSE, str |-> s, num |-> 0]
EnvNumber(n) == [kind |-> "number", bool |-> FALSE, str |-> <<>>, num |-> n]

\* String.prototype.split on a one-character separator.
RECURSIVE Split(_, _)
Split(s, sep) ==
    IF \A i \in 1..Len(s) : s[i] # sep THEN <<s>>
    ELSE LET k == CHOOSE i \in 1..Len(s) :
                      s[i] = sep /\ \A j \in 1..(i - 1) : s[j] # sep
         IN  <<SubSeq(s, 1, k - 1)>> \o Split(SubSeq(s, k + 1, Len(s)), sep)

RECURSIVE TrimEnd(_)
TrimEnd(s) ==
    IF s # <<>> /\ IsWhiteSpace(s[Len(s)]) THEN TrimEnd(SubSeq(s, 1, Len(s) - 1)) ELSE s

Trim(s) == TrimEnd(TrimStart(s))

MapTrim(parts) == [i \in 1..Len(parts) |-> Trim(parts[i])]

EndsWith(s, t) ==
    Len(t) <= Len(s) /\ SubSeq(s, Len(s) - Len(t) + 1, Len(s)) = t

\* String.prototype.replace with a string pattern: the first occurrence.
ReplaceFirst(s, pattern, replacement) ==
    LET starts == {i \in 1..(Len(s) - Len(pattern) + 1) :
                       SubSeq(s, i, i + Len(pattern) - 1) = pattern}
    IN  IF starts = {} THEN s
        ELSE LET i == CHOOSE x \in starts : \A y \in starts : x <= y
             IN  SubSeq(s, 1, i - 1) \o replacement
                     \o SubSeq(s, i + Len(pattern), Len(s))

getBooleanEnv(value, defaultValue) ==
    IF value.kind = "undefined" THEN defaultValue
    ELSE IF value.kind = "boolean" THEN value.bool
    ELSE LET lowerValue == ToLowerCase(value.str)
         IN  IF lowerValue = Str(<<"f", "a", "l", "s", "e">>) \/ lowerValue = Str(<<"0">>) THEN FALSE
             ELSE IF lowerValue = Str(<<"t", "r", "u", "e">>) \/ lowerValue = Str(<<"1">>) THEN TRUE
             ELSE defaultValue

\* booleanTransform: ok is FALSE where the transform throws; data is the
\* parsed value.
booleanTransform(value) ==
    IF value.kind # "string" THEN [ok |-> TRUE, data |-> value]
    ELSE LET normalized == ToLowerCase(value.str)
         IN  IF normalized = Str(<<"t", "r", "u", "e">>) \/ normalized = Str(<<"1">>)
                 THEN [ok |-> TRUE, data |-> EnvBoolean(TRUE)]
             ELSE IF normalized = Str(<<"f", "a", "l", "s", "e">>) \/ normalized = Str(<<"0">>)
                 THEN [ok |-> TRUE, data |-> EnvBoolean(FALSE)]
             ELSE [ok |-> FALSE, data |-> EnvUndefined]

validateUrlSigningPaths(paths) ==
    \/ ~IsTruthy(paths)
    \/ LET pathList == MapTrim(Split(paths, Code(",")))
       IN  \A i \in 1..Len(pathList) :
               pathList[i] = <<>> \/ StartsWith(pathList[i], Str(<<"/">>))

hasMinimumSecretLength(secret) == ~IsTruthy(secret) \/ Len(secret) >= 32

hasAdequateEntropy(secret) ==
    \/ ~IsTruthy(secret)
    \/ LET hasLowercase == \E i \in 1..Len(secret) : IsLower(secret[i])
           hasUppercase == \E i \in 1..Len(secret) : IsUpper(secret[i])
           hasNumbers == \E i \in 1..Len(secret) : IsDigit(secret[i])
           hasSpecialChars ==
               \E i \in 1..Len(secret) :
                   ~IsLower(secret[i]) /\ ~IsUpper(secret[i]) /\ ~IsDigit(secret[i])
           entropyScore ==
               Cardinality({k \in {<<1, hasLowercase>>, <<2, hasUppercase>>,
                                   <<3, hasNumbers>>, <<4, hasSpecialChars>>} : k[2]})
       IN  entropyScore >= 2

\* data is the parsed environment: ENFORCE_URL_SIGNING after booleanTransform.
validateUrlSigningConfiguration(data) ==
    LET isEnforced == getBooleanEnv(data.ENFORCE_URL_SIGNING, FALSE)
    IN  ~(isEnforced /\ ~IsTruthy(data.URL_SIGNING_SECRET))

validateUrlSigningPathsConfiguration(data) ==
    LET requiredPaths == data.URL_SIGNING_REQUIRED_PATHS
        secret == data.URL_SIGNING_SECRET
    IN  \/ ~IsTruthy(requiredPaths)
        \/ LET pathList == MapTrim(Split(requiredPaths, Code(",")))
               hasValidPaths ==
                   Len(pathList) > 0 /\ \E i \in 1..Len(pathList) : pathList[i] # <<>>
           IN  ~(hasValidPaths /\ ~IsTruthy(secret))

\* The digits a string starts with.
RECURSIVE LeadingDigits(_)
LeadingDigits(s) ==
    IF s # <<>> /\ IsDigit(s[1]) THEN <<s[1]>> \o LeadingDigits(Tail(s)) ELSE <<>>

\* integerTransform with the refinement of createRangedInteger, optional.
createRangedInteger(value, minValue, maxValue) ==
    \/ value.kind = "undefined"
    \/ /\ value.kind = "number"
       /\ value.num >= minValue /\ value.num <= maxValue
    \/ /\ value.kind = "string"
       /\ LeadingDigits(value.str) # <<>>
       /\ DigitsValue(LeadingDigits(value.str)) >= minValue
       /\ DigitsValue(LeadingDigits(value.str)) <= maxValue

\* What integerTransform makes of a binding that passed it.
integerData(value) ==
    IF value.kind = "string" THEN EnvNumber(DigitsValue(LeadingDigits(value.str)))
    ELSE value

\* data is the parsed environment.
validateCacheTtlRelationship(data) ==
    LET minTtl == data.CACHE_MIN_TTL_SECONDS
        maxTtl == data.CACHE_MAX_TTL_SECONDS
    IN  IF minTtl.kind # "undefined" /\ maxTtl.kind # "undefined"
            THEN minTtl.num <= maxTtl.num
            ELSE TRUE

\* envSchema.parse succeeds (the bindings this model varies).
validateEnvironment(e) ==
    /\ e.RANGE_RETRY_ATTEMPTS >= 1 /\ e.RANGE_RETRY_ATTEMPTS <= 10
    /\ createRangedInteger(e.CACHE_TTL_SECONDS, 1, 604800)
    /\ createRangedInteger(e.CACHE_MIN_TTL_SECONDS, 1, 86400)
    /\ createRangedInteger(e.CACHE_MAX_TTL_SECONDS, 60, 604800)
    /\ booleanTransform(e.CACHE_ENABLED).ok
    /\ booleanTransform(e.CACHE_OVERRIDE_S3_HEADERS).ok
    /\ booleanTransform(e.CACHE_DEBUG).ok
    /\ booleanTransform(e.ENFORCE_URL_SIGNING).ok
    /\ validateUrlSigningPaths(e.URL_SIGNING_REQUIRED_PATHS)
    /\ hasMinimumSecretLength(e.URL_SIGNING_SECRET)
    /\ hasAdequateEntropy(e.URL_SIGNING_SECRET)
    /\ LET data == [e EXCEPT
                       !.CACHE_MIN_TTL_SECONDS = integerData(@),
                       !.CACHE_MAX_TTL_SECONDS = integerData(@),
                       !.ENFORCE_URL_SIGNING = booleanTransform(@).data,
                       !.CACHE_ENABLED = booleanTransform(@).data]
       IN  /\ validateCacheTtlRelationship(data)
           /\ validateUrlSigningConfiguration(data)
           /\ validateUrlSigningPathsConfiguration(data)

\* getCacheConfig(env).enabled
CacheConfigEnabled(e) == getBooleanEnv(e.CACHE_ENABLED, TRUE)

\* int(env.RANGE_RETRY_ATTEMPTS, ...) of a numeric binding
int(value) == value

-----------------------------------------------------------------------------
(* lib/security.ts: shouldEnforceUrlSigning *)

parseBooleanEnvVar(value) ==
    IF value.kind = "boolean" THEN value.bool
    ELSE IF value.kind = "string" THEN value.str = Str(<<"t", "r", "u", "e">>) \/ value.str = Str(<<"1">>)
    ELSE FALSE

MatchesRequiredPath(requiredPath, requestPathname) ==
    IF EndsWith(requiredPath, Str(<<"*">>))
        THEN StartsWith(requestPathname, SubSeq(requiredPath, 1, Len(requiredPath) - 1))
        ELSE \/ requestPathname = requiredPath
             \/ StartsWith(requestPathname, requiredPath \o Str(<<"/">>))

shouldEnforceUrlSigning(e, requestPathname) ==
    IF ~IsTruthy(e.URL_SIGNING_SECRET) THEN FALSE
    ELSE IF parseBooleanEnvVar(e.ENFORCE_URL_SIGNING) THEN TRUE
    ELSE IF IsTruthy(e.URL_SIGNING_REQUIRED_PATHS)
        THEN LET requiredPaths ==
                     SelectSeq(MapTrim(Split(e.URL_SIGNING_REQUIRED_PATHS, Code(","))),
                               LAMBDA pathPattern : Len(pathPattern) > 0)
             IN  \E i \in 1..Len(requiredPaths) :
                     MatchesRequiredPath(requiredPaths[i], requestPathname)
    ELSE FALSE

-----------------------------------------------------------------------------
(* routes/files.ts, routes/list.ts: access checks.  The result is "ok"     *)
(* where the promise resolves and names the HTTPException otherwise.        *)

HTTPException(status, message) ==
    [isHTTPException |-> TRUE, status |-> status, message |-> message]

\* A verifySignature whose expiry failure is a 401.
verifySignatureExceptionUnauthorized(outcome) ==
    CASE outcome = "missing"   -> HTTPException(403, Str(<<"M", "i", "s", "s", "i", "n", "g", " ", "s", "i", "g", "n", "a", "t", "u", "r", "e", " ", "o", "r", " ", "e", "x", "p", "i", "r", "a", "t", "i", "o", "n">>))
      [] outcome = "expired"   -> HTTPException(401, Str(<<"U", "R", "L", " ", "e", "x", "p", "i", "r", "e", "d">>))
      [] outcome = "malformed" ->
            HTTPException(403, Str(<<"S", "i", "g", "n", "a", "t", "u", "r", "e", " ", "f", "o", "r", "m", "a", "t", " ", "i", "s", " ", "i", "n", "v", "a", "l", "i", "d", " ", "-", " ", "n", "o", " ", "h", "e", "x", " ", "b", "y", "t", "e", "s", " ", "f", "o", "u", "n", "d">>))
      [] outcome = "invalid"   -> HTTPException(403, Str(<<"I", "n", "v", "a", "l", "i", "d", " ", "s", "i", "g", "n", "a", "t", "u", "r", "e">>))

\* The HTTPException verifySignature throws at each of its failures.
verifySignatureException(outcome) ==
    CASE outcome = "missing"   -> HTTPException(403, Str(<<"M", "i", "s", "s", "i", "n", "g", " ", "s", "i", "g", "n", "a", "t", "u", "r", "e", " ", "o", "r", " ", "e", "x", "p", "i", "r", "a", "t", "i", "o", "n">>))
      [] outcome = "expired"   -> HTTPException(403, Str(<<"U", "R", "L", " ", "e", "x", "p", "i", "r", "e", "d">>))
      [] outcome = "malformed" ->
            HTTPException(403, Str(<<"S", "i", "g", "n", "a", "t", "u", "r", "e", " ", "f", "o", "r", "m", "a", "t", " ", "i", "s", " ", "i", "n", "v", "a", "l", "i", "d", " ", "-", " ", "n", "o", " ", "h", "e", "x", " ", "b", "y", "t", "e", "s", " ", "f", "o", "u", "n", "d">>))
      [] outcome = "invalid"   -> HTTPException(403, Str(<<"I", "n", "v", "a", "l", "i", "d", " ", "s", "i", "g", "n", "a", "t", "u", "r", "e">>))

\* What validateFileAccess, validateListAccess throw.
accessException(outcome) ==
    IF outcome = "notConfigured"
        THEN HTTPException(501, Str(<<"U", "R", "L", " ", "s", "i", "g", "n", "i", "n", "g", " ", "i", "s", " ", "r", "e", "q", "u", "i", "r", "e", "d", " ", "b", "u", "t", " ", "n", "o", "t", " ", "c", "o", "n", "f", "i", "g", "u", "r", "e", "d">>))
        ELSE verifySignatureException(outcome)

\* app.onError: the JSON body and the status of the response to a thrown error.
onError(err, nowMs) ==
    LET status  == IF err.isHTTPException THEN err.status ELSE 500
        message == IF err.isHTTPException THEN err.message ELSE Str(<<"I", "n", "t", "e", "r", "n", "a", "l", " ", "S", "e", "r", "v", "e", "r", " ", "E", "r", "r", "o", "r">>)
    IN  [status |-> status, error |-> message, timestamp |-> nowMs]

\* An access check that verifies nothing.
validateFileAccessUnverified(e, pathname, requestUrl, nowMs) == "ok"

validateFileAccess(e, pathname, requestUrl, nowMs) ==
    IF shouldEnforceUrlSigning(e, pathname)
        THEN IF ~IsTruthy(e.URL_SIGNING_SECRET) THEN "notConfigured"
             ELSE verifySignature(requestUrl, e.URL_SIGNING_SECRET, nowMs)
        ELSE "ok"

listPathname == Str(<<"/", "l", "i", "s", "t">>)

validateListAccess(e, requestUrl, nowMs) ==
    IF shouldEnforceUrlSigning(e, listPathname)
        THEN IF ~IsTruthy(e.URL_SIGNING_SECRET) THEN "notConfigured"
             ELSE verifySignature(requestUrl, e.URL_SIGNING_SECRET, nowMs)
        ELSE "ok"

-----------------------------------------------------------------------------
(* routes/cache.ts: authentication of the cache operations.  The file      *)
(* holds two definitions of the router; both are modelled.                 *)

bearerPrefix == Str(<<"B", "e", "a", "r", "e", "r", " ">>)

extractBearerToken(authHeader) ==
    IF authHeader = Null \/ ~StartsWith(authHeader, bearerPrefix) THEN Null
    ELSE ReplaceFirst(authHeader, bearerPrefix, <<>>)

validateBearerAuth(authHeader, secret) == extractBearerToken(authHeader) = secret

validateUrlSignatureAuth(e, requestUrl, endpoint, nowMs) ==
    IF ~shouldEnforceUrlSigning(e, endpoint) THEN FALSE
    ELSE IF ~IsTruthy(e.URL_SIGNING_SECRET) THEN FALSE
    ELSE verifySignature(requestUrl, e.URL_SIGNING_SECRET, nowMs) = "ok"

validateCacheAuth(e, request, endpoint, nowMs) ==
    IF ~IsTruthy(e.CACHE_PURGE_SECRET) THEN "notImplemented"
    ELSE IF validateBearerAuth(request.authorization, e.CACHE_PURGE_SECRET) THEN "ok"
    ELSE IF validateUrlSignatureAuth(e, request.url, endpoint, nowMs) THEN "ok"
    ELSE "forbidden"

\* Second definition.
isValidBearerToken(authHeader, expectedSecret) ==
    IF ~IsTruthy(authHeader) THEN FALSE
    ELSE ReplaceFirst(authHeader, bearerPrefix, <<>>) = expectedSecret

validateUrlSignature(e, requestUrl, endpoint, nowMs) ==
    IF ~shouldEnforceUrlSigning(e, endpoint) THEN "ok"
    ELSE IF ~IsTruthy(e.URL_SIGNING_SECRET) THEN "forbidden"
    ELSE verifySignature(requestUrl, e.URL_SIGNING_SECRET, nowMs)

validateCacheAuthRev2(e, request, endpoint, nowMs) ==
    LET purgeSecret == e.CACHE_PURGE_SECRET
    IN  IF ~IsTruthy(purgeSecret) THEN "notImplemented"
        ELSE IF isValidBearerToken(request.authorization, purgeSecret) THEN "ok"
        ELSE IF validateUrlSignature(e, request.url, endpoint, nowMs) = "ok" THEN "ok"
        ELSE "forbidden"

-----------------------------------------------------------------------------
(* lib/cache.ts, lib/aws-client.ts: responses, one origin attempt, the     *)
(* retry loops, time-to-live, cacheability, conditional responses.         *)

IsOk(status) == status >= 200 /\ status <= 299

\* A date header: absent, a date (milliseconds since the epoch) or a value
\* that new Date() does not parse (getTime() is NaN).
NoDate == [kind |-> "absent", time |-> 0]
HttpDate(t) == [kind |-> "date", time |-> t]
InvalidDate == [kind |-> "invalid", time |-> 0]

\* What the origin (or the network) does with one attempt: a response with
\* the headers the worker reads, or a rejected fetch.
OriginObject(status, contentRange, edgeHit, etag, lastModified, cacheControl, vary, expires, body) ==
    [kind |-> "response", status |-> status, contentRange |-> contentRange,
     edgeHit |-> edgeHit, etag |-> etag, lastModified |-> lastModified,
     cacheControl |-> cacheControl, vary |-> vary, expires |-> expires,
     xCacheStored |-> FALSE, xCacheDebug |-> FALSE, body |-> body]
OriginResponse(status, contentRange, edgeHit) ==
    OriginObject(status, contentRange, edgeHit, Null, NoDate, Null, Null, NoDate,
                 IF status = 404 THEN "error document" ELSE "object")
NetworkError ==
    [OriginResponse(0, FALSE, FALSE) EXCEPT !.kind = "error", !.body = ""]

\* performFetchAttempt that throws on every response that is not ok.
performFetchAttemptThrowingOnClientErrors(headers, res) ==
    IF res.kind = "error" THEN "throw"
    ELSE IF headers.range # Null /\ ~res.contentRange THEN "throw"
    ELSE IF ~IsOk(res.status) THEN "throw"
    ELSE "return"

\* performFetchAttempt that looks at the status before it looks for
\* Content-Range.
performFetchAttemptStatusFirst(headers, res) ==
    IF res.kind = "error" THEN "throw"
    ELSE IF ~IsOk(res.status) /\ res.status >= 500 THEN "throw"
    ELSE IF ~IsOk(res.status) THEN "return"
    ELSE IF headers.range # Null /\ ~res.contentRange THEN "throw"
    ELSE "return"

\* performFetchAttempt: "throw" or "return" (the response is res).
performFetchAttempt(headers, res) ==
    IF res.kind = "error" THEN "throw"
    ELSE IF headers.range # Null /\ ~res.contentRange THEN "throw"
    ELSE IF ~IsOk(res.status) /\ res.status >= 500 THEN "throw"
    ELSE "return"

\* The error performFetchAttempt throws.
FetchAttemptError(headers, res) ==
    IF res.kind = "error" THEN [cause |-> "network", status |-> 0]
    ELSE IF headers.range # Null /\ ~res.contentRange
        THEN [cause |-> "Missing content-range", status |-> res.status]
    ELSE [cause |-> "Upstream responded with server error", status |-> res.status]

NoError == [cause |-> "none", status |-> 0]

\* No response (null).
NoObject == [NetworkError EXCEPT !.kind = "none"]

shouldHaveContentRange(headers) == headers.range # Null

\* isServerError that lets 500 to 502 through.
isServerErrorFrom503(res) == res.status >= 503

isServerError(res) == res.status >= 500

\* performS3FetchAttempt with validateRangeResponse and handleServerError.
performS3FetchAttempt(headers, res) ==
    IF res.kind = "error" THEN "throw"
    ELSE IF shouldHaveContentRange(headers) /\ ~res.contentRange THEN "throw"
    ELSE IF ~IsOk(res.status) /\ isServerError(res) THEN "throw"
    ELSE "return"

\* A loop that runs once more than it was asked to.
HasAttemptsLeftInclusive(attemptNo, attempts) == attemptNo <= attempts

\* while (attempt < attempts)
HasAttemptsLeft(attemptNo, attempts) == attemptNo < attempts

\* while (attemptCount < maxAttempts)
S3HasAttemptsLeft(attemptCount, maxAttempts) == attemptCount < maxAttempts

\* parseNumericEnvVar of getCacheConfig; Number.parseInt(value, 10) reads the
\* leading digits and is NaN without any.
parseNumericEnvVar(value, defaultValue) ==
    IF value.kind = "undefined" THEN defaultValue
    ELSE IF value.kind = "number" THEN value.num
    ELSE IF LeadingDigits(value.str) = <<>> THEN defaultValue
    ELSE DigitsValue(LeadingDigits(value.str))

\* A configuration that ignores CACHE_ENABLED.
getCacheConfigAlwaysEnabled(e) ==
    [enabled |-> TRUE,
     ttlSeconds |-> parseNumericEnvVar(e.CACHE_TTL_SECONDS, 3600),
     overrideS3Headers |-> getBooleanEnv(e.CACHE_OVERRIDE_S3_HEADERS, FALSE),
     minTtlSeconds |-> parseNumericEnvVar(e.CACHE_MIN_TTL_SECONDS, 60),
     maxTtlSeconds |-> parseNumericEnvVar(e.CACHE_MAX_TTL_SECONDS, 86400),
     debug |-> getBooleanEnv(e.CACHE_DEBUG, FALSE)]

\* A configuration whose default lower bound is two minutes.
getCacheConfigTwoMinutes(e) ==
    [enabled |-> getBooleanEnv(e.CACHE_ENABLED, TRUE),
     ttlSeconds |-> parseNumericEnvVar(e.CACHE_TTL_SECONDS, 3600),
     overrideS3Headers |-> getBooleanEnv(e.CACHE_OVERRIDE_S3_HEADERS, FALSE),
     minTtlSeconds |-> parseNumericEnvVar(e.CACHE_MIN_TTL_SECONDS, 120),
     maxTtlSeconds |-> parseNumericEnvVar(e.CACHE_MAX_TTL_SECONDS, 86400),
     debug |-> getBooleanEnv(e.CACHE_DEBUG, FALSE)]

getCacheConfig(e) ==
    [enabled |-> getBooleanEnv(e.CACHE_ENABLED, TRUE),
     ttlSeconds |-> parseNumericEnvVar(e.CACHE_TTL_SECONDS, 3600),
     overrideS3Headers |-> getBooleanEnv(e.CACHE_OVERRIDE_S3_HEADERS, FALSE),
     minTtlSeconds |-> parseNumericEnvVar(e.CACHE_MIN_TTL_SECONDS, 60),
     maxTtlSeconds |-> parseNumericEnvVar(e.CACHE_MAX_TTL_SECONDS, 86400),
     debug |-> getBooleanEnv(e.CACHE_DEBUG, FALSE)]

Min(a, b) == IF a <= b THEN a ELSE b
Max(a, b) == IF a >= b THEN a ELSE b

\* The digits captured by /max-age=(\d+)/ in value, or Null without a match.
MaxAgeMatch(value) ==
    LET prefix == Str(<<"m", "a", "x", "-", "a", "g", "e", "=">>)
        starts == {i \in 1..(Len(value) - Len(prefix)) :
                      /\ SubSeq(value, i, i + Len(prefix) - 1) = prefix
                      /\ IsDigit(value[i + Len(prefix)])}
    IN  IF starts = {} THEN Null
        ELSE LET i == CHOOSE x \in starts : \A y \in starts : x <= y
                 first == i + Len(prefix)
                 last == CHOOSE j \in first..Len(value) :
                             /\ \A k \in first..j : IsDigit(value[k])
                             /\ (j = Len(value) \/ ~IsDigit(value[j + 1]))
             IN  SubSeq(value, first, last)

\* A clamp that forgets the upper limit.
ClampTtlToMinOnly(config, seconds) == Max(config.minTtlSeconds, seconds)

\* Math.max(config.minTtlSeconds, Math.min(config.maxTtlSeconds, seconds))
ClampTtl(config, seconds) ==
    Max(config.minTtlSeconds, Min(config.maxTtlSeconds, seconds))

\* A calculateTtl that consults Expires before Cache-Control.
calculateTtlExpiresFirst(res, config, nowMs) ==
    IF config.overrideS3Headers THEN ClampTtl(config, config.ttlSeconds)
    ELSE IF res.expires.kind = "date" /\ res.expires.time > nowMs
        THEN ClampTtl(config, (res.expires.time - nowMs) \div 1000)
    ELSE IF IsTruthy(res.cacheControl) /\ MaxAgeMatch(res.cacheControl) # Null
        THEN ClampTtl(config, DigitsValue(MaxAgeMatch(res.cacheControl)))
    ELSE ClampTtl(config, config.ttlSeconds)

calculateTtl(res, config, nowMs) ==
    IF config.overrideS3Headers THEN ClampTtl(config, config.ttlSeconds)
    ELSE IF IsTruthy(res.cacheControl) /\ MaxAgeMatch(res.cacheControl) # Null
        THEN ClampTtl(config, DigitsValue(MaxAgeMatch(res.cacheControl)))
    ELSE IF res.expires.kind = "date" /\ res.expires.time > nowMs
        THEN ClampTtl(config, (res.expires.time - nowMs) \div 1000)
    ELSE ClampTtl(config, config.ttlSeconds)

\* A cacheability test that admits every successful response.
isCacheableAnySuccess(res) == IsOk(res.status)

\* isCacheable for a GET (the file route fetches with GET only).
isCacheable(res) ==
    IF ~IsOk(res.status) THEN FALSE
    ELSE IF res.status = 206 \/ res.vary = Str(<<"*">>) THEN FALSE
    ELSE ~(/\ res.cacheControl # Null
           /\ (Includes(res.cacheControl, Str(<<"n", "o", "-", "c", "a", "c", "h", "e">>))
                  \/ Includes(res.cacheControl, Str(<<"n", "o", "-", "s", "t", "o", "r", "e">>))))

\* storeInCacheApi that puts the response with the headers it came with.
storeInCacheApiKeepingHeaders(res, cacheKey, config, isEdgeHit, nowMs) ==
    IF ~IsOk(res.status) \/ ~isCacheable(res) \/ isEdgeHit THEN {}
    ELSE {[key |-> cacheKey, entry |-> [res EXCEPT !.xCacheStored = TRUE]]}

\* storeInCacheApi: the cache.put it issues (none when it skips storage):
\* the response with Cache-Control: max-age=<ttl> and X-Cache-Stored.
storeInCacheApi(res, cacheKey, config, isEdgeHit, nowMs) ==
    IF ~IsOk(res.status) \/ ~isCacheable(res) \/ isEdgeHit THEN {}
    ELSE {[key |-> cacheKey,
           entry |-> [res EXCEPT
                         !.cacheControl =
                             Str(<<"m", "a", "x", "-", "a", "g", "e", "=">>) \o NumberToString(calculateTtl(res, config, nowMs)),
                         !.xCacheStored = TRUE]]}

\* createCacheResult: the cache result of a fetched response.
createCacheResult(res, isEdgeHit) ==
    [hit |-> isEdgeHit, source |-> IF isEdgeHit THEN "cache" ELSE "s3"]

\* The conditional headers of a request: If-None-Match (a string or Null)
\* and If-Modified-Since (a date header).
NoConditions == [ifNoneMatch |-> Null, ifModifiedSince |-> NoDate]

NotModified(etag, lastModified, cacheControl) ==
    [OriginObject(304, FALSE, FALSE, etag, lastModified, cacheControl, Null, NoDate, "")
        EXCEPT !.kind = "synthesized"]

\* A createConditionalResponse that wants If-None-Match equal to the ETag.
createConditionalResponseExactEtag(conditions, cachedResponse) ==
    LET clientEtag == conditions.ifNoneMatch
        clientModifiedSince == conditions.ifModifiedSince
        serverEtag == cachedResponse.etag
        serverLastModified == cachedResponse.lastModified
        cacheControl == IF cachedResponse.cacheControl = Null THEN <<>>
                        ELSE cachedResponse.cacheControl
    IN  IF /\ IsTruthy(clientEtag)
           /\ IsTruthy(serverEtag)
           /\ (clientEtag = Str(<<"*">>) \/ clientEtag = serverEtag)
            THEN NotModified(serverEtag, serverLastModified, cacheControl)
        ELSE IF /\ clientModifiedSince.kind # "absent"
                /\ ~IsTruthy(clientEtag)
                /\ serverLastModified.kind # "absent"
                /\ clientModifiedSince.kind = "date"
                /\ serverLastModified.kind = "date"
                /\ serverLastModified.time <= clientModifiedSince.time
            THEN NotModified(Null, serverLastModified, cacheControl)
        ELSE NoObject

\* A createConditionalResponse that goes on to If-Modified-Since when
\* If-None-Match did not match.
createConditionalResponseFallingThrough(conditions, cachedResponse) ==
    LET clientEtag == conditions.ifNoneMatch
        clientModifiedSince == conditions.ifModifiedSince
        serverEtag == cachedResponse.etag
        serverLastModified == cachedResponse.lastModified
        cacheControl == IF cachedResponse.cacheControl = Null THEN <<>>
                        ELSE cachedResponse.cacheControl
    IN  IF /\ IsTruthy(clientEtag)
           /\ IsTruthy(serverEtag)
           /\ (clientEtag = Str(<<"*">>) \/ Includes(clientEtag, serverEtag))
            THEN NotModified(serverEtag, serverLastModified, cacheControl)
        ELSE IF /\ clientModifiedSince.kind # "absent"
                /\ serverLastModified.kind # "absent"
                /\ clientModifiedSince.kind = "date"
                /\ serverLastModified.kind = "date"
                /\ serverLastModified.time <= clientModifiedSince.time
            THEN NotModified(Null, serverLastModified, cacheControl)
        ELSE NoObject

\* createConditionalResponse: the 304, or NoObject for null.  A date that does
\* not parse compares as NaN.
createConditionalResponse(conditions, cachedResponse) ==
    LET clientEtag == conditions.ifNoneMatch
        clientModifiedSince == conditions.ifModifiedSince
        serverEtag == cachedResponse.etag
        serverLastModified == cachedResponse.lastModified
        cacheControl == IF cachedResponse.cacheControl = Null THEN <<>>
                        ELSE cachedResponse.cacheControl
    IN  IF /\ IsTruthy(clientEtag)
           /\ IsTruthy(serverEtag)
           /\ (clientEtag = Str(<<"*">>) \/ Includes(clientEtag, serverEtag))
            THEN NotModified(serverEtag, serverLastModified, cacheControl)
        ELSE IF /\ clientModifiedSince.kind # "absent"
                /\ ~IsTruthy(clientEtag)
                /\ serverLastModified.kind # "absent"
                /\ clientModifiedSince.kind = "date"
                /\ serverLastModified.kind = "date"
                /\ serverLastModified.time <= clientModifiedSince.time
            THEN NotModified(Null, serverLastModified, cacheControl)
        ELSE NoObject

\* The Cache API store: cache keys and the response held under each.
EmptyStore == <<>>
\* A store that keeps the entry a key already has.
CachePutIfAbsent(store, cacheKey, entry) ==
    [k \in (DOMAIN store) \cup {cacheKey} |-> IF k \in DOMAIN store THEN store[k] ELSE entry]

CachePut(store, cacheKey, entry) ==
    [k \in (DOMAIN store) \cup {cacheKey} |-> IF k = cacheKey THEN entry ELSE store[k]]
CacheDelete(store, cacheKey) == [k \in (DOMAIN store) \ {cacheKey} |-> store[k]]

CacheApiMiss ==
    [found |-> FALSE, response |-> NoObject,
     cacheResult |-> [hit |-> FALSE, source |-> "none"]]
CacheApiHit(res) ==
    [found |-> TRUE, response |-> res, cacheResult |-> [hit |-> TRUE, source |-> "cache"]]
\* handleCacheApiRequest that lets the error of cache.match out as a
\* failure.
handleCacheApiRequestPropagating(store, cacheKey, conditions, config, lookupThrows, setThrows) ==
    IF lookupThrows THEN CacheApiHit([NetworkError EXCEPT !.status = 500])
    ELSE IF cacheKey \notin DOMAIN store THEN CacheApiMiss
    ELSE CacheApiHit(store[cacheKey])

\* handleCacheApiRequest: found is FALSE for null (nothing matches, or the
\* Cache API throws).  lookupThrows: cache.match throws; setThrows:
\* headers.set on the clone of the matched response throws (its headers are
\* immutable), which the same catch turns into null.
handleCacheApiRequest(store, cacheKey, conditions, config, lookupThrows, setThrows) ==
    IF lookupThrows \/ cacheKey \notin DOMAIN store THEN CacheApiMiss
    ELSE LET cachedResponse == store[cacheKey]
             conditionalResponse == createConditionalResponse(conditions, cachedResponse)
         IN  IF conditionalResponse.kind # "none" THEN CacheApiHit(conditionalResponse)
             ELSE IF config.debug /\ setThrows THEN CacheApiMiss
             ELSE CacheApiHit([cachedResponse EXCEPT !.xCacheDebug = config.debug])

cacheInternalOrigin == Str(<<"h", "t", "t", "p", "s", ":", "/", "/", "c", "a", "c", "h", "e", ".", "i", "n", "t", "e", "r", "n", "a", "l">>)

\* new URL(pattern) succeeds: the pattern has a scheme and an authority.
IsValidUrl(pattern) == StartsWith(pattern, Str(<<"h", "t", "t", "p", "s", ":", "/", "/">>))

\* The argument of purgeCache: a string or a RegExp.
StringPattern(source) == [kind |-> "string", source |-> source]
RegExpPattern(source) == [kind |-> "regexp", source |-> source]

\* A RegExp test that finds its pattern anywhere in the key (a pattern of
\* literal characters).
RegExpTest(pattern, key) ==
    \E i \in 1..(Len(key) - Len(pattern) + 1) :
        SubSeq(key, i, i + Len(pattern) - 1) = pattern

\* A purgeCache that deletes what its RegExp matches.
purgeCacheByRegExp(store, pattern) ==
    IF pattern.kind = "string"
        THEN LET cacheKey ==
                     IF IsValidUrl(pattern.source) THEN pattern.source
                     ELSE IF StartsWith(pattern.source, Str(<<"/">>))
                         THEN cacheInternalOrigin \o pattern.source
                     ELSE cacheInternalOrigin \o Str(<<"/">>) \o pattern.source
                 deleted == cacheKey \in DOMAIN store
             IN  [store |-> CacheDelete(store, cacheKey),
                  purged |-> IF deleted THEN 1 ELSE 0, errors |-> <<>>]
        ELSE LET matching == {k \in DOMAIN store : RegExpTest(pattern.source, k)}
             IN  [store |-> [k \in (DOMAIN store) \ matching |-> store[k]],
                  purged |-> Cardinality(matching), errors |-> <<>>]

\* purgeCache(pattern): the store it leaves, the number of entries it
\* deleted and its error messages.
purgeCache(store, pattern) ==
    IF pattern.kind = "string"
        THEN LET cacheKey ==
                     IF IsValidUrl(pattern.source) THEN pattern.source
                     ELSE IF StartsWith(pattern.source, Str(<<"/">>))
                         THEN cacheInternalOrigin \o pattern.source
                     ELSE cacheInternalOrigin \o Str(<<"/">>) \o pattern.source
                 deleted == cacheKey \in DOMAIN store
             IN  [store |-> CacheDelete(store, cacheKey),
                  purged |-> IF deleted THEN 1 ELSE 0, errors |-> <<>>]
        ELSE [store |-> store, purged |-> 0,
              errors |-> <<Str(<<"P", "a", "t", "t", "e", "r", "n", "-", "b", "a", "s", "e", "d", " ", "p", "u", "r", "g", "i", "n", "g", " ", "r", "e", "q", "u", "i", "r", "e", "s", " ", "c", "u", "s", "t", "o", "m", " ", "i", "m", "p", "l", "e", "m", "e", "n", "t", "a", "t", "i", "o", "n">>)>>]

-----------------------------------------------------------------------------
(* Signed URLs: an issuer signs a URL, a client presents it (as issued,   *)
(* or changed) and the worker verifies it against its clock.              *)

MaxSignParams == 1    \* query parameters of the URL handed to the issuer
MaxExpiresIn == 1     \* lifetimes offered to the issuer, seconds
MaxTicks == 3         \* the clock runs to MaxTicks half seconds

SigSecrets == {Str(<<"k">>), Str(<<"K", "2">>)}
SigPathname == Str(<<"/", "f">>)
SigValues == {Str(<<"1">>), Str(<<"!">>)}
SigParams ==
    {Param(Str(<<"a">>), Str(<<"1">>)), Param(Str(<<"B">>), Str(<<"!">>)),
     Param(expName, Str(<<"7">>))}
ForgedSignatures == {Str(<<"0", "0">>), Str(<<"z">>), <<10>>}

RECURSIVE SeqsUpTo(_, _)
SeqsUpTo(S, n) ==
    IF n = 0 THEN {<<>>}
    ELSE LET shorter == SeqsUpTo(S, n - 1)
         IN  shorter \cup {Append(q, x) : q \in shorter, x \in S}

NoResult == "none"
NotUsed == "unused"

KeyIdle == /\ ckA = NotUsed /\ ckB = NotUsed /\ ckKeyA = NotUsed /\ ckKeyB = NotUsed
WorkerIdle ==
    /\ env = NotUsed /\ isEnvironmentValidated = FALSE /\ now = 0 /\ cacheStore = <<>>
    /\ pendingPuts = {} /\ lastPut = NotUsed
    /\ req = NotUsed /\ pc = NotUsed /\ access = NotUsed /\ lookedUp = NotUsed
    /\ matched = NotUsed /\ attempt = NotUsed /\ lastErr = NotUsed /\ fetchLog = NotUsed
    /\ puts = NotUsed /\ fetchResult = NotUsed /\ response = NotUsed
    /\ executed = NotUsed
TtlIdle ==
    /\ ttlConfig = NotUsed /\ ttlResponse = NotUsed /\ ttlNow = 0 /\ ttlResult = NotUsed
CondIdle == /\ cdConditions = NotUsed /\ cdCached = NotUsed /\ cdResult = NotUsed
PrefixIdle == /\ pxEnv = NotUsed /\ pxPrefix = NotUsed /\ pxResult = NotUsed
CanonIdle == /\ cqParams = NotUsed /\ cqResult = NotUsed /\ cqFirst = NotUsed
RetryIdle == /\ rtVia = NotUsed /\ rtHeaders = NotUsed /\ rtAttempts = 0 /\ rtAttempt = 0
             /\ rtPc = NotUsed /\ rtTrace = <<>>
StartIdle == /\ evCalls = 0 /\ evValidations = 0 /\ evLast = NotUsed
LibIdle == CondIdle /\ PrefixIdle /\ CanonIdle
    /\ StartIdle
    /\ RetryIdle
SigIdle == /\ sgSecret = NotUsed /\ sgIssued = NotUsed /\ sgUrl = NotUsed
           /\ sgTamper = NotUsed /\ sgNow = 0 /\ sgResult = NotUsed

SigInit ==
    /\ sgSecret \in SigSecrets
    /\ sgNow = 0
    /\ \E q \in SeqsUpTo(SigParams, MaxSignParams), e \in 0..MaxExpiresIn :
          sgIssued = generateSignedUrl([pathname |-> SigPathname, searchParams |-> q],
                                       sgSecret, sgNow, e)
    /\ sgUrl = sgIssued
    /\ sgTamper = "none"
    /\ sgResult = NoResult
    /\ KeyIdle
    /\ TtlIdle
    /\ LibIdle
    /\ WorkerIdle

\* The worker verifies the presented URL now.
SigVerify ==
    /\ sgResult' = verifySignature(sgUrl, sgSecret, sgNow)
    /\ UNCHANGED <<sgSecret, sgIssued, sgUrl, sgTamper, sgNow, keyVars, ttlVars, libVars, workerVars>>

\* Half a second passes.
SigTick ==
    /\ sgNow < MaxTicks * 500
    /\ sgNow' = sgNow + 500
    /\ sgResult' = NoResult
    /\ UNCHANGED <<sgSecret, sgIssued, sgUrl, sgTamper, keyVars, ttlVars, libVars, workerVars>>

\* The client presents the issued URL with the value of one parameter other
\* than sig changed.  (A run follows one presented URL: the client chooses
\* once, at any time, what it presents.)
SigChangeValue ==
    /\ sgTamper = "none"
    /\ \E i \in 1..Len(sgIssued.searchParams) :
          /\ sgIssued.searchParams[i].name # sigName
          /\ \E v \in SigValues \cup {NumberToString(n) : n \in 0..(MaxExpiresIn + 2)} :
                /\ v # sgIssued.searchParams[i].value
                /\ sgUrl' = [sgIssued EXCEPT !.searchParams[i].value = v]
    /\ sgTamper' = "value"
    /\ sgResult' = NoResult
    /\ UNCHANGED <<sgSecret, sgIssued, sgNow, keyVars, ttlVars, libVars, workerVars>>

FlipBit(c, b) == IF (c \div (2 ^ b)) % 2 = 1 THEN c - 2 ^ b ELSE c + 2 ^ b

SigIndex(url) == CHOOSE i \in 1..Len(url.searchParams) : url.searchParams[i].name = sigName

\* The client presents the issued URL with one bit of one character of sig
\* flipped.
SigFlipBit ==
    /\ sgTamper = "none"
    /\ \E j \in 1..Len(sgIssued.searchParams[SigIndex(sgIssued)].value), b \in 0..6 :
          sgUrl' = [sgIssued EXCEPT
                       !.searchParams[SigIndex(sgIssued)].value[j] = FlipBit(@, b)]
    /\ sgTamper' = "sigbit"
    /\ sgResult' = NoResult
    /\ UNCHANGED <<sgSecret, sgIssued, sgNow, keyVars, ttlVars, libVars, workerVars>>

\* The client presents the issued URL with another signature altogether.
SigForge ==
    /\ sgTamper = "none"
    /\ \E f \in ForgedSignatures :
          sgUrl' = [sgIssued EXCEPT !.searchParams[SigIndex(sgIssued)].value = f]
    /\ sgTamper' = "forged"
    /\ sgResult' = NoResult
    /\ UNCHANGED <<sgSecret, sgIssued, sgNow, keyVars, ttlVars, libVars, workerVars>>

\* The client presents the URL, as issued or with another signature, without
\* its sig or without its exp.
SigDrop ==
    /\ sgTamper \in {"none", "forged"}
    /\ \E n \in {sigName, expName} :
          sgUrl' = [sgUrl EXCEPT !.searchParams = SearchParamsDelete(@, n)]
    /\ sgTamper' = "dropped"
    /\ sgResult' = NoResult
    /\ UNCHANGED <<sgSecret, sgIssued, sgNow, keyVars, ttlVars, libVars, workerVars>>

SigNext == SigVerify \/ SigTick \/ SigChangeValue \/ SigFlipBit \/ SigForge \/ SigDrop

SpecSig == SigInit /\ [][SigNext]_vars

\* exp of the presented URL, in seconds (the issuer writes decimal digits).
SigExp(url) == ToNumber(SearchParamsGet(url.searchParams, expName)).val

\* The issued URL had not expired when the client presented its variant.
SigIssuedUnexpired == sgNow <= SigExp(sgIssued) * 1000

SigUrlHasNumericExp ==
    ~ToNumber(SearchParamsGet(sgUrl.searchParams, expName)).nan

\* C4: a URL the issuer produced is accepted by verifySignature, with the
\* same secret, at every time that does not exceed its exp.
C4_IssuedUrlVerifies ==
    (sgTamper = "none" /\ sgResult # NoResult /\ SigIssuedUnexpired) => sgResult = "ok"

\* An issued URL with three query parameters accepted at the very last
\* millisecond of its life.
C4_Witness ==
    /\ sgTamper = "none" /\ sgResult = "ok"
    /\ Len(sgUrl.searchParams) >= 3
    /\ sgNow > 0 /\ sgNow = SigExp(sgIssued) * 1000

\* C5: with the value of any query parameter other than sig changed (exp
\* included), a validly signed and unexpired URL is no longer accepted.
C5_ChangedValueFails ==
    (sgTamper = "value" /\ sgResult # NoResult) => sgResult # "ok"

\* The exp of an unexpired URL moved to a later second, and the URL refused
\* for its signature.
C5_Witness ==
    /\ sgTamper = "value" /\ sgResult = "invalid" /\ SigIssuedUnexpired
    /\ SigUrlHasNumericExp /\ SigExp(sgUrl) > SigExp(sgIssued)

\* C6: with any single bit of the signature flipped, a validly signed and
\* unexpired URL is no longer accepted.
C6_FlippedBitFails ==
    (sgTamper = "sigbit" /\ sgResult # NoResult) => sgResult # "ok"

\* The presented URL carries a sig.
SigUrlHasSig == IsTruthy(SearchParamsGet(sgUrl.searchParams, sigName))

\* C7: a URL that carries a sig is accepted only while the clock does not
\* exceed exp (seconds, converted to milliseconds), and once the clock has
\* passed exp every verification of it fails as expired, whatever its
\* signature.
C7_ExpiredOncePassed ==
    (sgResult # NoResult /\ SigUrlHasNumericExp /\ SigUrlHasSig) =>
        /\ sgResult = "ok" => sgNow <= SigExp(sgUrl) * 1000
        /\ sgNow > SigExp(sgUrl) * 1000 => sgResult = "expired"

\* A URL with a signature that is not the issued one, refused as expired
\* half a second after the second of its exp.
C7_Witness ==
    /\ sgTamper = "forged" /\ sgResult = "expired"
    /\ sgNow = SigExp(sgUrl) * 1000 + 500

-----------------------------------------------------------------------------
(* Cache keys: the worker computes the key of a request A and of a         *)
(* request B that a client derives from A by one change.                   *)

MaxKeyParams == 2     \* query parameters of request A

KeyPathname == Str(<<"/", "b", "/", "f">>)
OtherKeyPathname == Str(<<"/", "b", "/", "g">>)
KeyValues == {Str(<<"1">>), Str(<<"2">>)}
KeyAuthValues == {Str(<<"z", "q">>), Str(<<"z", "w">>)}
KeyRangeValue == Str(<<"b", "y", "t", "e", "s", "=", "0", "-", "1">>)
KeyEncodingValue == Str(<<"g", "z", "i", "p">>)
KeyVersionValue == Str(<<"3">>)
KeyNames == {Str(<<"a">>), Str(<<"c">>)}
KeyParamsOfA ==
    {Param(Str(<<"a">>), v) : v \in KeyValues}
        \cup {Param(Str(<<"c">>), Str(<<"1">>))}
        \cup {Param(sigName, Str(<<"z", "q">>)), Param(expName, Str(<<"z", "w">>)),
              Param(Str(<<"v">>), Str(<<"1">>))}

InSeq(x, seq) == \E i \in 1..Len(seq) : seq[i] = x

KeyOf(request) == generateCacheKey(request.url, request.headers, request.version)

InsertAt(seq, i, x) == SubSeq(seq, 1, i - 1) \o <<x>> \o SubSeq(seq, i, Len(seq))
RemoveAt(seq, i) == SubSeq(seq, 1, i - 1) \o SubSeq(seq, i + 1, Len(seq))

KeyInit ==
    /\ \E q \in SeqsUpTo(KeyParamsOfA, MaxKeyParams), r \in {Null, KeyRangeValue} :
          ckA = [url |-> [pathname |-> KeyPathname, searchParams |-> q],
                 headers |-> [range |-> r, acceptEncoding |-> Null],
                 version |-> Null]
    /\ ckB = ckA
    /\ ckKeyA = KeyOf(ckA)
    /\ ckKeyB = ckKeyA
    /\ SigIdle
    /\ TtlIdle
    /\ LibIdle
    /\ WorkerIdle

\* Request B arrives and the worker computes its key.
KeyArrive(b) ==
    /\ ckB = ckA
    /\ ckB' = b
    /\ ckKeyB' = KeyOf(b)
    /\ UNCHANGED <<ckA, ckKeyA, sigVars, ttlVars, libVars, workerVars>>

\* B is A with other values for sig and exp.
KeyResign ==
    \E vs \in KeyAuthValues, ve \in KeyAuthValues :
        KeyArrive([ckA EXCEPT !.url.searchParams =
            [i \in 1..Len(@) |->
                IF @[i].name = sigName THEN Param(sigName, vs)
                ELSE IF @[i].name = expName THEN Param(expName, ve)
                ELSE @[i]]])

\* B is A with one more excluded parameter somewhere in the query.
KeyAddExcluded ==
    \E i \in 1..(Len(ckA.url.searchParams) + 1), k \in 1..Len(excludedParams),
       v \in KeyAuthValues :
        KeyArrive([ckA EXCEPT !.url.searchParams = InsertAt(@, i, Param(excludedParams[k], v))])

\* B is A with one more parameter that is not excluded.
KeyAddParam ==
    \E i \in 1..(Len(ckA.url.searchParams) + 1), n \in KeyNames, v \in KeyValues :
        KeyArrive([ckA EXCEPT !.url.searchParams = InsertAt(@, i, Param(n, v))])

\* B is A without one of its parameters.
KeyDropParam ==
    \E i \in 1..Len(ckA.url.searchParams) :
        KeyArrive([ckA EXCEPT !.url.searchParams = RemoveAt(@, i)])

\* B is A with another value for one parameter that is not excluded.
KeySetValue ==
    \E i \in 1..Len(ckA.url.searchParams), v \in KeyValues :
        /\ ~InSeq(ckA.url.searchParams[i].name, excludedParams)
        /\ KeyArrive([ckA EXCEPT !.url.searchParams[i].value = v])

\* B is A for another path, with another Range or Accept-Encoding header, or
\* under another version tag.
KeySetPath == KeyArrive([ckA EXCEPT !.url.pathname = OtherKeyPathname])

KeySetRange ==
    \E r \in {Null, KeyRangeValue, Str(<<"b", "y", "t", "e", "s", "=", "2", "-">>)} :
        KeyArrive([ckA EXCEPT !.headers.range = r])

KeySetAcceptEncoding == KeyArrive([ckA EXCEPT !.headers.acceptEncoding = KeyEncodingValue])

KeySetVersion == KeyArrive([ckA EXCEPT !.version = KeyVersionValue])

\* B is A with two neighbouring parameters of its query exchanged.
KeyReorder ==
    \E i \in 1..(Len(ckA.url.searchParams) - 1) :
        /\ ckA.url.searchParams[i] # ckA.url.searchParams[i + 1]
        /\ KeyArrive([ckA EXCEPT !.url.searchParams =
               [k \in 1..Len(@) |-> IF k = i THEN @[i + 1] ELSE IF k = i + 1 THEN @[i] ELSE @[k]]])

KeyNext ==
    \/ KeyResign \/ KeyAddExcluded \/ KeyAddParam \/ KeyDropParam \/ KeySetValue
    \/ KeySetPath \/ KeySetRange \/ KeySetAcceptEncoding \/ KeySetVersion \/ KeyReorder

SpecKey == KeyInit /\ [][KeyNext]_vars

SameButQuery(a, b) ==
    /\ a.url.pathname = b.url.pathname
    /\ a.headers = b.headers
    /\ a.version = b.version

\* The two queries have the same names in the same places and differ at most
\* in the values of sig and exp.
OnlySigExpValuesDiffer(a, b) ==
    LET pa == a.url.searchParams
        pb == b.url.searchParams
    IN  /\ SameButQuery(a, b)
        /\ Len(pa) = Len(pb)
        /\ \A i \in 1..Len(pa) :
              /\ pa[i].name = pb[i].name
              /\ pa[i].name \notin {sigName, expName} => pa[i].value = pb[i].value

WithoutNames(params, names) == SelectSeq(params, LAMBDA p : ~InSeq(p.name, names))

\* The two requests are the same once the cache-busting parameters are
\* taken out of both.
OnlyCacheBustingDiffers(a, b) ==
    /\ SameButQuery(a, b)
    /\ WithoutNames(a.url.searchParams, cacheBustingParams)
           = WithoutNames(b.url.searchParams, cacheBustingParams)

\* C2: two requests that differ only in their sig and/or exp values, or only
\* in a cache-busting parameter (_, bust, nocache, v, version), get the same
\* cache key, and the key contains no value of sig or exp.
C2_ExcludedParamsDoNotReachKey ==
    /\ (OnlySigExpValuesDiffer(ckA, ckB) \/ OnlyCacheBustingDiffers(ckA, ckB))
           => ckKeyA = ckKeyB
    /\ \A i \in 1..Len(ckB.url.searchParams) :
          ckB.url.searchParams[i].name \in {sigName, expName}
              => ~Includes(ckKeyB, ckB.url.searchParams[i].value)

\* A and B carry different values of both sig and exp next to a parameter
\* that is part of the key, and have the same key.
C2_Witness ==
    /\ OnlySigExpValuesDiffer(ckA, ckB)
    /\ SearchParamsGet(ckA.url.searchParams, sigName) # Null
    /\ SearchParamsGet(ckA.url.searchParams, sigName)
           # SearchParamsGet(ckB.url.searchParams, sigName)
    /\ SearchParamsGet(ckA.url.searchParams, expName) # Null
    /\ SearchParamsGet(ckA.url.searchParams, expName)
           # SearchParamsGet(ckB.url.searchParams, expName)
    /\ ckA.headers.range # Null
    /\ ckKeyA = ckKeyB

\* How often a (name, value) pair occurs among the parameters that are not
\* excluded.
Occurrences(params, p) ==
    Cardinality({i \in 1..Len(params) : params[i] = p})

SameResource(a, b) ==
    LET pa == WithoutNames(a.url.searchParams, excludedParams)
        pb == WithoutNames(b.url.searchParams, excludedParams)
    IN  /\ SameButQuery(a, b)
        /\ \A i \in 1..Len(pa) : Occurrences(pa, pa[i]) = Occurrences(pb, pa[i])
        /\ \A i \in 1..Len(pb) : Occurrences(pa, pb[i]) = Occurrences(pb, pb[i])

\* C3: two requests that differ in path, in a non-excluded query parameter
\* (names and values, with multiplicity), in the range or accept-encoding
\* header or in the version tag never get the same cache key.
C3_DistinctResourcesDistinctKeys ==
    ckKeyA = ckKeyB => SameResource(ckA, ckB)

-----------------------------------------------------------------------------
(* The worker: one isolate; each request in flight occupies a slot, and    *)
(* the handlers of different slots interleave at their awaits.             *)

MaxAttempts == 3      \* largest RANGE_RETRY_ATTEMPTS deployed
MaxClockTicks == 1    \* the worker's clock advances this many times
MaxPendingPuts == 1   \* a request is admitted while fewer puts than this are unsettled

workerSecret == Str(<<"U", "r", "l", "-", "S", "i", "g", "n", "i", "n", "g", "-", "S", "e", "c", "r", "e", "t", "-", "0", "1", "2", "3", "4", "5", "6", "7", "8", "9", "a", "b", "c">>)
purgeSecret == Str(<<"p", "u", "r", "g", "e", "-", "s", "e", "c", "r", "e", "t">>)
bucketPath == Str(<<"/", "b">>)
filePathname == Str(<<"/", "f">>)
purgePathname == Str(<<"/", "_", "_", "c", "a", "c", "h", "e", "/", "p", "u", "r", "g", "e">>)
warmPathname == Str(<<"/", "_", "_", "c", "a", "c", "h", "e", "/", "w", "a", "r", "m">>)
rangeValue == Str(<<"b", "y", "t", "e", "s", "=", "0", "-", "1">>)

\* ENFORCE_URL_SIGNING and CACHE_ENABLED as deployments write them.
EnforceBindings ==
    {EnvUndefined, EnvBoolean(TRUE), EnvString(Str(<<"t", "r", "u", "e">>)), EnvString(Str(<<"T", "R", "U", "E">>)),
     EnvString(Str(<<"y", "e", "s">>))}
CacheEnabledBindings == {EnvUndefined, EnvBoolean(FALSE)}
RequiredPathsBindings == {Null, Str(<<"/", "f", ",", " ", "/", "_", "_", "c", "a", "c", "h", "e", "/", "*">>)}

Environment(enforce, secret, paths, purge, cacheEnabled, attempts) ==
    [ENFORCE_URL_SIGNING |-> enforce, URL_SIGNING_SECRET |-> secret,
     URL_SIGNING_REQUIRED_PATHS |-> paths, CACHE_PURGE_SECRET |-> purge,
     CACHE_ENABLED |-> cacheEnabled, RANGE_RETRY_ATTEMPTS |-> attempts,
     VERSION |-> Null,
     CACHE_TTL_SECONDS |-> EnvUndefined, CACHE_MIN_TTL_SECONDS |-> EnvUndefined,
     CACHE_MAX_TTL_SECONDS |-> EnvUndefined,
     CACHE_OVERRIDE_S3_HEADERS |-> EnvUndefined, CACHE_DEBUG |-> EnvUndefined]

\* URLs a client may present for a path: unsigned, as issued at time 0 for
\* one second, or issued and then given another signature.
UnsignedUrl(pathname) == [pathname |-> pathname, searchParams |-> <<>>]
IssuedUrl(pathname) == generateSignedUrl(UnsignedUrl(pathname), workerSecret, 0, 1)
ForgedUrl(pathname) ==
    [IssuedUrl(pathname) EXCEPT !.searchParams = SearchParamsSet(@, sigName, Str(<<"0", "0", "f", "f">>))]
FileUrls == {UnsignedUrl(filePathname), IssuedUrl(filePathname), ForgedUrl(filePathname)}
ListUrls == {UnsignedUrl(listPathname), IssuedUrl(listPathname), ForgedUrl(listPathname)}
PurgeUrls == {UnsignedUrl(purgePathname), IssuedUrl(purgePathname), ForgedUrl(purgePathname)}
WarmUrls == {UnsignedUrl(warmPathname), IssuedUrl(warmPathname), ForgedUrl(warmPathname)}
AuthorizationHeaders ==
    {Null, bearerPrefix \o purgeSecret, bearerPrefix \o Str(<<"g", "u", "e", "s", "s">>), purgeSecret}

Request(route, url, range, authorization, body) ==
    [route |-> route, url |-> url, range |-> range, authorization |-> authorization,
     body |-> body, conditions |-> NoConditions]
NoRequest == Request("none", UnsignedUrl(<<>>), Null, Null, Null)
NoAccess == [result |-> "none", at |-> 0]
\* json: what a cache management response reports in its body.
NoJson == [purged |-> 0, errors |-> <<>>]
Response(status, source, content) ==
    [status |-> status, source |-> source, content |-> content, json |-> NoJson]
NoResponse == Response(0, "none", FALSE)
NoFetchResult ==
    [kind |-> "none", response |-> NoObject,
     cacheResult |-> [hit |-> FALSE, source |-> "none"], attempts |-> 0,
     error |-> NoError]
Returned(res, cacheResult) ==
    [NoFetchResult EXCEPT !.kind = "returned", !.response = res,
                          !.cacheResult = cacheResult]
\* An error that names the number of attempts only.
FailedAfterWithoutCause(attempts, err) ==
    [NoFetchResult EXCEPT !.kind = "thrown", !.attempts = attempts]

\* new Error("Failed after ${attempts} attempts: ${String(lastErr)}")
FailedAfter(attempts, err) ==
    [NoFetchResult EXCEPT !.kind = "thrown", !.attempts = attempts, !.error = err]

\* A cache.put in flight: who made it, the key and the response put.
NoPut == [by |-> 0, key |-> <<>>, entry |-> NoObject]

\* What cache.match did for a request: not called, threw, resolved with
\* nothing, or resolved with an entry.
NoMatch == [outcome |-> "none", entry |-> NoObject]
MatchThrew == [outcome |-> "threw", entry |-> NoObject]
MatchedNothing == [outcome |-> "nothing", entry |-> NoObject]
Matched(entry) == [outcome |-> "entry", entry |-> entry]

\* buildRequestHeaders: Range is forwarded; the url handed to cachedS3Fetch
\* is the S3 base url followed by the file name.
\* A key that leaves the file name out.
FileCacheKeyOfBucket(e, request) ==
    generateCacheKey(UnsignedUrl(bucketPath), [range |-> request.range, acceptEncoding |-> Null],
                     e.VERSION)

RequestHeaders(request) == [range |-> request.range, acceptEncoding |-> Null]
S3Url(request) == UnsignedUrl(bucketPath \o request.url.pathname)
FileCacheKey(e, request) == generateCacheKey(S3Url(request), RequestHeaders(request), e.VERSION)

\* The object at the origin and what S3, the edge cache in front of it and
\* the network do with a GET for it.
objectEtag == Str(<<"\"", "v", "1", "\"">>)
objectLastModified == HttpDate(1000)
StoredObject(cacheControl, vary, expires, body) ==
    OriginObject(200, FALSE, FALSE, objectEtag, objectLastModified, cacheControl, vary,
                 expires, body)
PlainOutcomes(request) ==
    IF request.range # Null
        THEN {OriginResponse(206, TRUE, FALSE), OriginResponse(200, FALSE, FALSE),
              OriginResponse(502, FALSE, FALSE)}
        ELSE {OriginResponse(200, FALSE, FALSE), OriginResponse(200, FALSE, TRUE),
              OriginResponse(404, FALSE, FALSE), OriginResponse(502, FALSE, FALSE),
              NetworkError}
HeaderOutcomes ==
    {StoredObject(Null, Null, NoDate, "object"),
     StoredObject(Str(<<"p", "u", "b", "l", "i", "c", ",", " ", "m", "a", "x", "-", "a", "g", "e", "=", "3", "0">>), Null, NoDate, "object"),
     StoredObject(Null, Str(<<"A", "c", "c", "e", "p", "t", "-", "E", "n", "c", "o", "d", "i", "n", "g">>), HttpDate(301000), "object"),
     StoredObject(Str(<<"p", "r", "i", "v", "a", "t", "e", ",", " ", "n", "o", "-", "s", "t", "o", "r", "e">>), Null, NoDate, "object"),
     StoredObject(Str(<<"n", "o", "-", "c", "a", "c", "h", "e">>), Null, NoDate, "object"),
     StoredObject(Null, Str(<<"*">>), NoDate, "object"),
     [StoredObject(Null, Null, NoDate, "object") EXCEPT !.edgeHit = TRUE],
     OriginResponse(404, FALSE, FALSE), OriginResponse(503, FALSE, FALSE)}
VersionOutcomes ==
    {StoredObject(Null, Null, NoDate, "first version"),
     StoredObject(Null, Null, NoDate, "second version"),
     OriginResponse(502, FALSE, FALSE)}
\* Answers to a ranged GET: the part asked for, the whole object, not
\* modified, not found, range not satisfiable (S3 sends Content-Range with
\* it), a server error with and without Content-Range, no answer.
RangeOutcomes ==
    {OriginResponse(206, TRUE, FALSE), OriginResponse(200, FALSE, FALSE),
     OriginResponse(304, FALSE, FALSE), OriginResponse(404, FALSE, FALSE),
     OriginResponse(416, TRUE, FALSE), OriginResponse(503, TRUE, FALSE),
     OriginResponse(500, FALSE, FALSE), NetworkError}
\* Two objects at the origin, the first in two versions: what a GET for the path
\* of a request may be answered with.
otherFilePathname == Str(<<"/", "g">>)
BodiesOf(pathname) ==
    IF pathname = filePathname THEN {"f, first version", "f, second version"}
    ELSE IF pathname = otherFilePathname THEN {"g, first version"}
    ELSE {}
FileOutcomes(request) ==
    {StoredObject(Null, Null, NoDate, body) : body \in BodiesOf(request.url.pathname)}
        \cup {OriginResponse(502, FALSE, FALSE)}
OriginOutcomes(origin, request) ==
    IF origin = "headers"
        THEN IF request.range # Null
                 THEN {[StoredObject(Null, Null, NoDate, "ob")
                           EXCEPT !.status = 206, !.contentRange = TRUE],
                       StoredObject(Null, Null, NoDate, "object"),
                       OriginResponse(503, FALSE, FALSE)}
                 ELSE HeaderOutcomes
    ELSE IF origin = "versions" THEN VersionOutcomes
    ELSE IF origin = "ranges" THEN RangeOutcomes
    ELSE IF origin = "files" THEN FileOutcomes(request)
    ELSE PlainOutcomes(request)

\* The conditional headers clients send.
ConditionalHeaders ==
    {NoConditions,
     [NoConditions EXCEPT !.ifNoneMatch = Str(<<"*">>)],
     [NoConditions EXCEPT !.ifNoneMatch = Str(<<"W", "/", "\"", "v", "0", "\"", ",", " ", "\"", "v", "1", "\"">>)],
     [NoConditions EXCEPT !.ifNoneMatch = Str(<<"\"", "v", "0", "\"">>)],
     [NoConditions EXCEPT !.ifModifiedSince = HttpDate(1000)],
     [NoConditions EXCEPT !.ifModifiedSince = HttpDate(0)],
     [NoConditions EXCEPT !.ifModifiedSince = InvalidDate],
     [ifNoneMatch |-> Str(<<"\"", "v", "0", "\"">>), ifModifiedSince |-> HttpDate(2000)]}

Slots(n) == 1..n

WorkerInit(environments, stores, slots) ==
    /\ env \in environments
    /\ isEnvironmentValidated = FALSE
    /\ now = 0
    /\ cacheStore \in stores
    /\ pendingPuts = {}
    /\ lastPut = NoPut
    /\ req = [s \in slots |-> NoRequest]
    /\ pc = [s \in slots |-> "idle"]
    /\ access = [s \in slots |-> NoAccess]
    /\ lookedUp = [s \in slots |-> FALSE]
    /\ matched = [s \in slots |-> NoMatch]
    /\ attempt = [s \in slots |-> 0]
    /\ lastErr = [s \in slots |-> NoError]
    /\ fetchLog = [s \in slots |-> <<>>]
    /\ puts = [s \in slots |-> {}]
    /\ fetchResult = [s \in slots |-> NoFetchResult]
    /\ response = [s \in slots |-> NoResponse]
    /\ executed = [s \in slots |-> "none"]
    /\ SigIdle
    /\ KeyIdle
    /\ TtlIdle
    /\ LibIdle

\* The handler of slot s ends with this response (thrown HTTPExceptions and
\* errors become responses in app.onError).
Finish(s, resp) ==
    /\ response' = [response EXCEPT ![s] = resp]
    /\ pc' = [pc EXCEPT ![s] = "done"]

Goto(s, label) ==
    /\ pc' = [pc EXCEPT ![s] = label]
    /\ UNCHANGED response

\* A guard that lets every call validate.
skipsValidationNever(validated) == FALSE

\* if (isEnvironmentValidated) return
skipsValidation(validated) == validated

\* ensureEnvironmentValidated: TRUE where it returns, FALSE where it throws.
ensureEnvironmentValidated(e, validated) == validated \/ validateEnvironment(e)

\* GET /:filename up to the call of cachedS3Fetch.
FileGet(s, urls, ranges, conditionals) ==
    /\ pc[s] = "idle"
    /\ Cardinality(pendingPuts) < MaxPendingPuts
    /\ \E url \in urls, range \in ranges, conditions \in conditionals :
          LET request == [Request("file", url, range, Null, Null)
                             EXCEPT !.conditions = conditions]
              valid == ensureEnvironmentValidated(env, isEnvironmentValidated)
              result == validateFileAccess(env, request.url.pathname, request.url, now)
          IN  /\ req' = [req EXCEPT ![s] = request]
              /\ isEnvironmentValidated' = valid
              /\ IF ~valid
                     THEN /\ Finish(s, Response(500, "none", FALSE))
                          /\ UNCHANGED access
                 ELSE IF result # "ok"
                     THEN /\ Finish(s, Response(onError(accessException(result), now).status,
                                                "none", FALSE))
                          /\ access' = [access EXCEPT ![s] = [result |-> result, at |-> now]]
                 ELSE /\ Goto(s, "cachedS3Fetch")
                      /\ access' = [access EXCEPT ![s] = [result |-> result, at |-> now]]
    /\ UNCHANGED <<env, now, cacheStore, pendingPuts, lastPut, lookedUp, matched, attempt,
                   lastErr, fetchLog, puts, fetchResult, executed,
                   sigVars, keyVars, ttlVars, libVars>>

\* The file handler's catch: an error out of cachedS3Fetch becomes
\* HTTPException(502, "Failed to retrieve file: ...").
RetrievalFailed(s, thrown) ==
    /\ fetchResult' = [fetchResult EXCEPT ![s] = thrown]
    /\ Finish(s, Response(502, "none", FALSE))

\* enhanceResponse of what cachedS3Fetch returned.
Retrieved(s, result, source) ==
    /\ fetchResult' = [fetchResult EXCEPT ![s] = result]
    /\ Finish(s, Response(result.response.status, source,
                          IsOk(result.response.status) \/ source = "cache-api"))

\* cachedS3Fetch up to its retry loop: with caching disabled it hands over to
\* s3Fetch, otherwise it consults the Cache API and on a miss enters
\* performFetchWithRetry.  lookups and headerSets are what cache.match and
\* Headers.set on a matched response may do in the runtime.
CachedS3Fetch(s, lookups, headerSets) ==
    /\ pc[s] = "cachedS3Fetch"
    /\ \E lookupThrows \in lookups, setThrows \in headerSets :
          LET attempts == int(env.RANGE_RETRY_ATTEMPTS)
              config == getCacheConfig(env)
              cacheKey == FileCacheKey(env, req[s])
              cacheResult == handleCacheApiRequest(cacheStore, cacheKey, req[s].conditions,
                                                   config, lookupThrows, setThrows)
          IN  IF ~config.enabled
                  THEN /\ IF S3HasAttemptsLeft(0, attempts)
                              THEN Goto(s, "s3Fetch") /\ UNCHANGED fetchResult
                              ELSE RetrievalFailed(s, FailedAfter(attempts, NoError))
                       /\ UNCHANGED <<lookedUp, matched>>
              ELSE /\ lookedUp' = [lookedUp EXCEPT ![s] = TRUE]
                   /\ matched' = [matched EXCEPT ![s] =
                                     IF lookupThrows THEN MatchThrew
                                     ELSE IF cacheKey \in DOMAIN cacheStore
                                         THEN Matched(cacheStore[cacheKey])
                                     ELSE MatchedNothing]
                   /\ IF cacheResult.found
                          THEN Retrieved(s, Returned(cacheResult.response,
                                                     cacheResult.cacheResult),
                                         "cache-api")
                      ELSE IF HasAttemptsLeft(0, attempts)
                          THEN Goto(s, "fetch") /\ UNCHANGED fetchResult
                      ELSE RetrievalFailed(s, FailedAfter(attempts, NoError))
    /\ attempt' = [attempt EXCEPT ![s] = 0]
    /\ UNCHANGED <<env, isEnvironmentValidated, now, cacheStore, pendingPuts, lastPut, req,
                   access, lastErr, fetchLog, puts, executed, sigVars, keyVars, ttlVars, libVars>>

\* One pass of the loop of performFetchWithRetry: the attempt, and on success
\* the store and the result.  Of the cache.put that storeInCacheApi makes,
\* putThrows says whether it throws at once (and is caught) or is issued and
\* left to settle on its own.
FetchAttempt(s, origin, putFaults) ==
    /\ pc[s] = "fetch"
    /\ \E res \in OriginOutcomes(origin, req[s]), putThrows \in putFaults :
          LET config == getCacheConfig(env)
              cacheKey == FileCacheKey(env, req[s])
              isEdgeHit == res.edgeHit
              made == storeInCacheApi(res, cacheKey, config, isEdgeHit, now)
              result == createCacheResult(res, isEdgeHit)
          IN  /\ fetchLog' = [fetchLog EXCEPT ![s] = Append(@, res)]
              /\ IF performFetchAttempt(RequestHeaders(req[s]), res) = "return"
                     THEN /\ puts' = [puts EXCEPT ![s] = @ \cup made]
                          /\ pendingPuts' =
                                 IF putThrows THEN pendingPuts
                                 ELSE pendingPuts \cup
                                          {[by |-> s, key |-> p.key, entry |-> p.entry] :
                                              p \in made}
                          /\ Retrieved(s, Returned([res EXCEPT !.xCacheDebug = config.debug],
                                                   result),
                                       IF isEdgeHit THEN "cache" ELSE "s3")
                          /\ UNCHANGED lastErr
                     ELSE /\ lastErr' = [lastErr EXCEPT ![s] =
                                            FetchAttemptError(RequestHeaders(req[s]), res)]
                          /\ Goto(s, "backoff")
                          /\ UNCHANGED <<puts, pendingPuts, fetchResult>>
    /\ UNCHANGED <<env, isEnvironmentValidated, now, cacheStore, lastPut, req, access,
                   lookedUp, matched, attempt, executed, sigVars, keyVars, ttlVars, libVars>>

\* The back-off timer of performFetchWithRetry fires: attempt++ and the loop
\* condition; when it fails the error surfaces as 502 in the file handler.
BackoffElapsed(s) ==
    /\ pc[s] = "backoff"
    /\ attempt' = [attempt EXCEPT ![s] = @ + 1]
    /\ IF HasAttemptsLeft(attempt[s] + 1, int(env.RANGE_RETRY_ATTEMPTS))
           THEN Goto(s, "fetch") /\ UNCHANGED fetchResult
           ELSE RetrievalFailed(s, FailedAfter(int(env.RANGE_RETRY_ATTEMPTS), lastErr[s]))
    /\ UNCHANGED <<env, isEnvironmentValidated, now, cacheStore, pendingPuts, lastPut, req,
                   access, lookedUp, matched, lastErr, fetchLog, puts, executed,
                   sigVars, keyVars, ttlVars, libVars>>

\* One pass of the loop of s3Fetch, and handleCachingDisabled around it.
S3FetchAttempt(s, origin) ==
    /\ pc[s] = "s3Fetch"
    /\ \E res \in OriginOutcomes(origin, req[s]) :
          /\ fetchLog' = [fetchLog EXCEPT ![s] = Append(@, res)]
          /\ IF performS3FetchAttempt(RequestHeaders(req[s]), res) = "return"
                 THEN /\ Retrieved(s, Returned(res, [hit |-> FALSE, source |-> "s3"]), "s3")
                      /\ UNCHANGED lastErr
                 ELSE /\ lastErr' = [lastErr EXCEPT ![s] =
                                        FetchAttemptError(RequestHeaders(req[s]), res)]
                      /\ Goto(s, "s3Backoff")
                      /\ UNCHANGED fetchResult
    /\ UNCHANGED <<env, isEnvironmentValidated, now, cacheStore, pendingPuts, lastPut, req,
                   access, lookedUp, matched, attempt, puts, executed,
                   sigVars, keyVars, ttlVars, libVars>>

S3BackoffElapsed(s) ==
    /\ pc[s] = "s3Backoff"
    /\ attempt' = [attempt EXCEPT ![s] = @ + 1]
    /\ IF S3HasAttemptsLeft(attempt[s] + 1, int(env.RANGE_RETRY_ATTEMPTS))
           THEN Goto(s, "s3Fetch") /\ UNCHANGED fetchResult
           ELSE RetrievalFailed(s, FailedAfter(int(env.RANGE_RETRY_ATTEMPTS), lastErr[s]))
    /\ UNCHANGED <<env, isEnvironmentValidated, now, cacheStore, pendingPuts, lastPut, req,
                   access, lookedUp, matched, lastErr, fetchLog, puts, executed,
                   sigVars, keyVars, ttlVars, libVars>>

\* The Cache API settles a put: the entry replaces whatever the key held.
PutLands ==
    /\ \E p \in pendingPuts :
          /\ cacheStore' = CachePut(cacheStore, p.key, p.entry)
          /\ pendingPuts' = pendingPuts \ {p}
          /\ lastPut' = p
    /\ UNCHANGED <<env, isEnvironmentValidated, now, requestVars, sigVars, keyVars, ttlVars, libVars>>

\* The put rejects; its catch logs a warning.
PutRejects ==
    /\ \E p \in pendingPuts : pendingPuts' = pendingPuts \ {p}
    /\ UNCHANGED <<env, isEnvironmentValidated, now, cacheStore, lastPut, requestVars,
                   sigVars, keyVars, ttlVars, libVars>>

\* GET /list up to the listing request to S3.
ListGet(s) ==
    /\ pc[s] = "idle"
    /\ \E url \in ListUrls :
          LET request == Request("list", url, Null, Null, Null)
              valid == ensureEnvironmentValidated(env, isEnvironmentValidated)
              result == validateListAccess(env, request.url, now)
          IN  /\ req' = [req EXCEPT ![s] = request]
              /\ isEnvironmentValidated' = valid
              /\ IF ~valid
                     THEN /\ Finish(s, Response(500, "none", FALSE))
                          /\ UNCHANGED access
                 ELSE IF result # "ok"
                     THEN /\ Finish(s, Response(onError(accessException(result), now).status,
                                                "none", FALSE))
                          /\ access' = [access EXCEPT ![s] = [result |-> result, at |-> now]]
                 ELSE /\ Goto(s, "listFetch")
                      /\ access' = [access EXCEPT ![s] = [result |-> result, at |-> now]]
    /\ UNCHANGED <<env, now, cacheStore, pendingPuts, lastPut, lookedUp, matched, attempt,
                   lastErr, fetchLog, puts, fetchResult, executed,
                   sigVars, keyVars, ttlVars, libVars>>

\* The listing comes back from S3: a listing is answered as JSON, any other
\* status is passed on as an error.
ListFetch(s) ==
    /\ pc[s] = "listFetch"
    /\ \E status \in {200, 403, 500} :
          Finish(s, Response(status, IF IsOk(status) THEN "s3" ELSE "none", IsOk(status)))
    /\ UNCHANGED <<env, isEnvironmentValidated, now, cacheStore, pendingPuts, lastPut, req,
                   access, lookedUp, matched, attempt, lastErr, fetchLog, puts, fetchResult,
                   executed, sigVars, keyVars, ttlVars, libVars>>

\* The response leaves the worker; the slot is free for the next request.
Deliver(s) ==
    /\ pc[s] = "done"
    /\ pc' = [pc EXCEPT ![s] = "idle"]
    /\ req' = [req EXCEPT ![s] = NoRequest]
    /\ access' = [access EXCEPT ![s] = NoAccess]
    /\ lookedUp' = [lookedUp EXCEPT ![s] = FALSE]
    /\ matched' = [matched EXCEPT ![s] = NoMatch]
    /\ attempt' = [attempt EXCEPT ![s] = 0]
    /\ lastErr' = [lastErr EXCEPT ![s] = NoError]
    /\ fetchLog' = [fetchLog EXCEPT ![s] = <<>>]
    /\ puts' = [puts EXCEPT ![s] = {}]
    /\ fetchResult' = [fetchResult EXCEPT ![s] = NoFetchResult]
    /\ response' = [response EXCEPT ![s] = NoResponse]
    /\ executed' = [executed EXCEPT ![s] = "none"]
    /\ UNCHANGED <<isolateVars, sigVars, keyVars, ttlVars, libVars>>

\* Two seconds pass.
Tick ==
    /\ now < MaxClockTicks * 2000
    /\ now' = now + 2000
    /\ UNCHANGED <<env, isEnvironmentValidated, cacheStore, pendingPuts, lastPut,
                   requestVars, sigVars, keyVars, ttlVars, libVars>>

ServingEnvironments ==
    {Environment(enforce, secret, paths, Null, cacheEnabled, attempts) :
        enforce \in EnforceBindings, secret \in {Null, workerSecret},
        paths \in RequiredPathsBindings, cacheEnabled \in CacheEnabledBindings,
        attempts \in 1..MaxAttempts}

Init == WorkerInit(ServingEnvironments, {EmptyStore}, Slots(1))

Next ==
    \/ \E s \in DOMAIN pc : FileGet(s, FileUrls, {Null, rangeValue}, {NoConditions})
    \/ \E s \in DOMAIN pc : CachedS3Fetch(s, {FALSE}, {FALSE})
    \/ \E s \in DOMAIN pc : FetchAttempt(s, "plain", {FALSE})
    \/ \E s \in DOMAIN pc : BackoffElapsed(s)
    \/ \E s \in DOMAIN pc : S3FetchAttempt(s, "plain")
    \/ \E s \in DOMAIN pc : S3BackoffElapsed(s)
    \/ \E s \in DOMAIN pc : ListGet(s)
    \/ \E s \in DOMAIN pc : ListFetch(s)
    \/ \E s \in DOMAIN pc : Deliver(s)
    \/ PutLands
    \/ PutRejects
    \/ Tick

Spec == Init /\ [][Next]_vars

-----------------------------------------------------------------------------
(* Cache management: POST /__cache/purge and POST /__cache/warm, in both   *)
(* definitions of the router.                                               *)

storedFileKey ==
    generateCacheKey(UnsignedUrl(bucketPath \o filePathname),
                     [range |-> Null, acceptEncoding |-> Null], Null)

\* The entry storeInCacheApi writes for the object under the default
\* configuration.
storedFileEntry ==
    [OriginResponse(200, FALSE, FALSE) EXCEPT
        !.cacheControl = Str(<<"m", "a", "x", "-", "a", "g", "e", "=", "3", "6", "0", "0">>), !.xCacheStored = TRUE]

\* The keys a purge request names (one key per request) and the url a warm
\* request names.
PurgeData(hasKeys, keys, pattern, all) ==
    [hasKeys |-> hasKeys, keys |-> keys, pattern |-> pattern, all |-> all]
PurgeKeys(keys) == PurgeData(TRUE, keys, Null, FALSE)
PurgePattern(pattern) == PurgeData(FALSE, <<>>, pattern, FALSE)
PurgeBodies ==
    {PurgeKeys(<<storedFileKey>>), PurgeKeys(<<bucketPath \o filePathname>>),
     PurgeKeys(<<filePathname>>), PurgeKeys(<<>>),
     PurgePattern(Str(<<"/", "b", "/">>)), PurgePattern(Str(<<".", "*">>)), PurgeData(FALSE, <<>>, Null, TRUE)}
WarmBodies == {<<Str(<<"h", "t", "t", "p", "s", ":", "/", "/", "p", "r", "o", "x", "y", ".", "e", "x", "a", "m", "p", "l", "e", "/", "f">>)>>}

PurgeOperationResult(store, totalPurged, errors) ==
    [store |-> store, totalPurged |-> totalPurged, errors |-> errors]

\* purgeByKeys: purgeCache for each key, in order.
RECURSIVE purgeByKeys(_, _)
purgeByKeys(store, keys) ==
    IF keys = <<>> THEN PurgeOperationResult(store, 0, <<>>)
    ELSE LET result == purgeCache(store, StringPattern(keys[1]))
             rest   == purgeByKeys(result.store, Tail(keys))
         IN  PurgeOperationResult(rest.store, result.purged + rest.totalPurged,
                                  result.errors \o rest.errors)

\* purgeByPattern: the schema has compiled the pattern once already.
purgeByPattern(store, pattern) ==
    LET result == purgeCache(store, RegExpPattern(pattern))
    IN  PurgeOperationResult(result.store, result.purged, result.errors)

executePurgeOperation(store, data) ==
    IF data.all
        THEN PurgeOperationResult(store, 0,
                 <<Str(<<"P", "u", "r", "g", "i", "n", "g", " ", "a", "l", "l", " ", "c", "a", "c", "h", "e", " ", "e", "n", "t", "r", "i", "e", "s", " ", "r", "e", "q", "u", "i", "r", "e", "s", " ", "c", "u", "s", "t", "o", "m", " ", "i", "m", "p", "l", "e", "m", "e", "n", "t", "a", "t", "i", "o", "n">>)>>)
    ELSE IF data.hasKeys THEN purgeByKeys(store, data.keys)
    ELSE IF IsTruthy(data.pattern) THEN purgeByPattern(store, data.pattern)
    ELSE PurgeOperationResult(store, 0, <<Str(<<"N", "o", " ", "v", "a", "l", "i", "d", " ", "p", "u", "r", "g", "e", " ", "o", "p", "e", "r", "a", "t", "i", "o", "n", " ", "s", "p", "e", "c", "i", "f", "i", "e", "d">>)>>)

\* The answer of an executed purge: the store it leaves and the counts it
\* reports.
PurgeAnswer(s, purge) ==
    /\ cacheStore' = purge.store
    /\ Finish(s, [Response(200, "none", TRUE) EXCEPT
           !.json = [purged |-> purge.totalPurged, errors |-> purge.errors]])

\* What a cache route does with the outcomes of the environment validation
\* and of validateCacheAuth.
CacheRouteAnswer(s, route, body, valid, result) ==
    /\ isEnvironmentValidated' = valid
    /\ IF ~valid
           THEN /\ Finish(s, Response(500, "none", FALSE))
                /\ UNCHANGED <<access, cacheStore, executed>>
       ELSE IF result # "ok"
           THEN /\ Finish(s, Response(IF result = "notImplemented" THEN 501 ELSE 403,
                                      "none", FALSE))
                /\ access' = [access EXCEPT ![s] = [result |-> result, at |-> now]]
                /\ UNCHANGED <<cacheStore, executed>>
       ELSE /\ access' = [access EXCEPT ![s] = [result |-> result, at |-> now]]
            /\ executed' = [executed EXCEPT ![s] = route]
            /\ IF route = "purge"
                   THEN PurgeAnswer(s, executePurgeOperation(cacheStore, body))
                   ELSE /\ cacheStore' = cacheStore
                        /\ Finish(s, Response(200, "none", TRUE))

\* A cache route from validateCacheAuth to its response; definition says
\* which of the two definitions of the router handles it.
CacheRoute(s, route, endpoint, urls, bodies, definition) ==
    /\ pc[s] = "idle"
    /\ \E url \in urls, authorization \in AuthorizationHeaders, body \in bodies :
          LET request == Request(route, url, Null, authorization, body)
          IN  /\ req' = [req EXCEPT ![s] = request]
              /\ CacheRouteAnswer(s, route, body,
                     ensureEnvironmentValidated(env, isEnvironmentValidated),
                     IF definition = "first"
                         THEN validateCacheAuth(env, request, endpoint, now)
                         ELSE validateCacheAuthRev2(env, request, endpoint, now))
    /\ UNCHANGED <<env, now, pendingPuts, lastPut, lookedUp, matched, attempt, lastErr,
                   fetchLog, puts, fetchResult, sigVars, keyVars, ttlVars, libVars>>

PurgeRoute(s) == CacheRoute(s, "purge", purgePathname, PurgeUrls, PurgeBodies, "first")
WarmRoute(s) == CacheRoute(s, "warm", warmPathname, WarmUrls, WarmBodies, "first")
PurgeRouteRev2(s) ==
    CacheRoute(s, "purge", purgePathname, PurgeUrls, PurgeBodies, "second")
WarmRouteRev2(s) ==
    CacheRoute(s, "warm", warmPathname, WarmUrls, WarmBodies, "second")

AdminEnvironments ==
    {Environment(enforce, secret, paths, purge, EnvUndefined, 1) :
        enforce \in EnforceBindings, secret \in {Null, workerSecret},
        paths \in RequiredPathsBindings, purge \in {Null, purgeSecret}}

AdminInit ==
    WorkerInit(AdminEnvironments,
               {EmptyStore, CachePut(EmptyStore, storedFileKey, storedFileEntry)},
               Slots(1))

AdminNext ==
    \/ \E s \in DOMAIN pc : PurgeRoute(s)
    \/ \E s \in DOMAIN pc : WarmRoute(s)
    \/ \E s \in DOMAIN pc : PurgeRouteRev2(s)
    \/ \E s \in DOMAIN pc : WarmRouteRev2(s)
    \/ \E s \in DOMAIN pc : Deliver(s)
    \/ Tick

SpecAdmin == AdminInit /\ [][AdminNext]_vars

-----------------------------------------------------------------------------
(* The orchestrator on its own: unsigned file requests with conditional    *)
(* headers, an origin whose responses carry caching headers, and a Cache   *)
(* API whose match and put may fail.                                        *)

TtlBindings ==
    {<<EnvUndefined, EnvUndefined, EnvUndefined>>,
     <<EnvNumber(600), EnvNumber(120), EnvNumber(300)>>}

OrchEnvironments ==
    {[Environment(EnvUndefined, Null, Null, Null, EnvUndefined, attempts) EXCEPT
         !.CACHE_DEBUG = debug,
         !.CACHE_OVERRIDE_S3_HEADERS = override,
         !.CACHE_TTL_SECONDS = ttl[1],
         !.CACHE_MIN_TTL_SECONDS = ttl[2],
         !.CACHE_MAX_TTL_SECONDS = ttl[3]] :
        attempts \in 1..2, debug \in {EnvUndefined, EnvBoolean(TRUE)},
        override \in {EnvUndefined, EnvString(Str(<<"t", "r", "u", "e">>))}, ttl \in TtlBindings}

OrchInit == WorkerInit(OrchEnvironments, {EmptyStore}, Slots(1))

OrchNext ==
    \/ \E s \in DOMAIN pc :
          FileGet(s, {UnsignedUrl(filePathname)}, {Null, rangeValue}, ConditionalHeaders)
    \/ \E s \in DOMAIN pc : CachedS3Fetch(s, BOOLEAN, BOOLEAN)
    \/ \E s \in DOMAIN pc : FetchAttempt(s, "headers", BOOLEAN)
    \/ \E s \in DOMAIN pc : BackoffElapsed(s)
    \/ \E s \in DOMAIN pc : Deliver(s)
    \/ PutLands
    \/ PutRejects
    \/ Tick

SpecOrch == OrchInit /\ [][OrchNext]_vars

-----------------------------------------------------------------------------
(* Two requests in flight for the same file while the object at the origin *)
(* changes, and a Cache API that applies every put.                        *)

RaceEnvironments ==
    {Environment(EnvUndefined, Null, Null, Null, EnvUndefined, attempts) :
        attempts \in 1..2}

RaceInit == WorkerInit(RaceEnvironments, {EmptyStore}, Slots(2))

RaceNext ==
    \/ \E s \in DOMAIN pc : FileGet(s, {UnsignedUrl(filePathname)}, {Null}, {NoConditions})
    \/ \E s \in DOMAIN pc : CachedS3Fetch(s, {FALSE}, {FALSE})
    \/ \E s \in DOMAIN pc : FetchAttempt(s, "versions", {FALSE})
    \/ \E s \in DOMAIN pc : BackoffElapsed(s)
    \/ \E s \in DOMAIN pc : Deliver(s)
    \/ PutLands
    \/ Tick

SpecRace == RaceInit /\ [][RaceNext]_vars

-----------------------------------------------------------------------------
(* calculateTtl over configurations and origin responses.                  *)

TtlLimits == {<<1, 60>>, <<60, 60>>, <<60, 300>>, <<60, 86400>>, <<120, 300>>,
              <<120, 86400>>, <<120, 60>>}

TtlConfigs ==
    {[enabled |-> TRUE, ttlSeconds |-> ttlSeconds, overrideS3Headers |-> override,
      minTtlSeconds |-> limits[1], maxTtlSeconds |-> limits[2], debug |-> FALSE] :
        ttlSeconds \in {1, 200, 3600, 604800}, override \in BOOLEAN,
        limits \in TtlLimits}

TtlCacheControls ==
    {Null, <<>>, Str(<<"m", "a", "x", "-", "a", "g", "e", "=", "0">>), Str(<<"m", "a", "x", "-", "a", "g", "e", "=", "3", "0">>), Str(<<"p", "u", "b", "l", "i", "c", ",", " ", "m", "a", "x", "-", "a", "g", "e", "=", "1", "0", "0", "0", "0", "0">>),
     Str(<<"m", "a", "x", "-", "a", "g", "e", "=", "a", "b", "c">>), Str(<<"s", "-", "m", "a", "x", "a", "g", "e", "=", "5", ",", " ", "m", "a", "x", "-", "a", "g", "e", "=", "2", "0", "0">>), Str(<<"n", "o", "-", "c", "a", "c", "h", "e">>)}

TtlExpires == {NoDate, InvalidDate, HttpDate(1000), HttpDate(90000), HttpDate(1000000000)}

TtlResponses ==
    {StoredObject(cacheControl, Null, expires, "object") :
        cacheControl \in TtlCacheControls, expires \in TtlExpires}

NoTtl == [called |-> FALSE, ttl |-> 0]

TtlInit ==
    /\ ttlConfig \in TtlConfigs
    /\ ttlResponse \in TtlResponses
    /\ ttlNow \in {0, 1500}
    /\ ttlResult = NoTtl
    /\ SigIdle
    /\ LibIdle
    /\ KeyIdle
    /\ WorkerIdle

\* calculateTtl(response, config) is called.
CalculateTtl ==
    /\ ttlResult' = [called |-> TRUE, ttl |-> calculateTtl(ttlResponse, ttlConfig, ttlNow)]
    /\ UNCHANGED <<ttlConfig, ttlResponse, ttlNow, sigVars, keyVars, libVars, workerVars>>

\* Time passes before the next call.
TtlTick ==
    /\ ttlNow < 90000
    /\ ttlNow' = ttlNow + 88500
    /\ ttlResult' = NoTtl
    /\ UNCHANGED <<ttlConfig, ttlResponse, sigVars, keyVars, libVars, workerVars>>

TtlNext == CalculateTtl \/ TtlTick

SpecTtl == TtlInit /\ [][TtlNext]_vars

-----------------------------------------------------------------------------
(* Claims about the worker *)

\* The request's URL carried a valid, unexpired signature when the handler
\* checked access.
PassedVerification(s) ==
    /\ access[s].result # "none"
    /\ IsTruthy(env.URL_SIGNING_SECRET)
    /\ verifySignature(req[s].url, env.URL_SIGNING_SECRET, access[s].at) = "ok"

InCachedS3Fetch(s) ==
    \/ pc[s] \in {"cachedS3Fetch", "fetch", "backoff", "s3Fetch", "s3Backoff"}
    \/ lookedUp[s]
    \/ fetchLog[s] # <<>>

\* C1: for a file GET of a path on which signing is enforced, cachedS3Fetch
\* is entered only after verifySignature succeeded; when verification fails
\* there is no cache lookup, no origin attempt and no content in the
\* response, even when the cache holds the file from an earlier request.
C1_VerifiedBeforeCache ==
    \A s \in DOMAIN pc :
        (req[s].route = "file" /\ shouldEnforceUrlSigning(env, req[s].url.pathname))
            => /\ (InCachedS3Fetch(s) \/ response[s].content) => PassedVerification(s)
               /\ (pc[s] = "done" /\ access[s].result \notin {"none", "ok"})
                      => /\ ~lookedUp[s] /\ fetchLog[s] = <<>>
                         /\ response[s] = Response(403, "none", FALSE)

\* The cache holds the file, stored by an earlier signed request, and the
\* same signed URL presented after its expiry is refused without a lookup.
C1_Witness ==
    \E s \in DOMAIN pc :
        /\ req[s].route = "file"
        /\ shouldEnforceUrlSigning(env, req[s].url.pathname)
        /\ FileCacheKey(env, req[s]) \in DOMAIN cacheStore
        /\ pc[s] = "done"
        /\ access[s].result = "expired"
        /\ ~lookedUp[s]
        /\ response[s].status = 403

\* What start-up validation takes ENFORCE_URL_SIGNING to say.
EnforcementEnabled ==
    /\ booleanTransform(env.ENFORCE_URL_SIGNING).ok
    /\ getBooleanEnv(booleanTransform(env.ENFORCE_URL_SIGNING).data, FALSE)

\* C8: in a configuration accepted at start-up with ENFORCE_URL_SIGNING
\* enabled, a file GET or a /list request is answered with content only
\* when verifySignature succeeded on its URL.
C8_EnforcedMeansVerified ==
    \A s \in DOMAIN pc :
        (/\ isEnvironmentValidated
         /\ EnforcementEnabled
         /\ req[s].route \in {"file", "list"}
         /\ response[s].content)
            => PassedVerification(s)

\* The request is authenticated: its Authorization header is "Bearer "
\* followed by CACHE_PURGE_SECRET, or its URL passes verifySignature.
Authenticated(s) ==
    \/ /\ IsTruthy(env.CACHE_PURGE_SECRET)
       /\ req[s].authorization = bearerPrefix \o env.CACHE_PURGE_SECRET
    \/ PassedVerification(s)

\* C9: purge and warm are executed only for an authenticated request.
C9_OnlyAuthenticatedExecutes ==
    \A s \in DOMAIN pc : executed[s] # "none" => Authenticated(s)

\* An attempt outcome after which the loop tries again.
RetryableFailure(s, res) ==
    IF CacheConfigEnabled(env)
        THEN performFetchAttempt(RequestHeaders(req[s]), res) = "throw"
        ELSE performS3FetchAttempt(RequestHeaders(req[s]), res) = "throw"

\* C10: one logical fetch makes at most RANGE_RETRY_ATTEMPTS origin
\* attempts, and the first attempt that is not a retryable failure is the
\* last one and its response is the one returned.
C10_BoundedRetry ==
    \A s \in DOMAIN pc :
        /\ Len(fetchLog[s]) <= env.RANGE_RETRY_ATTEMPTS
        /\ \A k \in 1..Len(fetchLog[s]) :
              ~RetryableFailure(s, fetchLog[s][k])
                  => /\ k = Len(fetchLog[s])
                     /\ pc[s] = "done"
                     /\ response[s].status = fetchLog[s][k].status
                     /\ response[s].content = IsOk(fetchLog[s][k].status)

\* Two server errors, then a success on the third and last allowed attempt.
C10_Witness ==
    \E s \in DOMAIN pc :
        /\ env.RANGE_RETRY_ATTEMPTS = 3
        /\ Len(fetchLog[s]) = 3
        /\ fetchLog[s][1].status = 502
        /\ fetchLog[s][2].status = 502
        /\ fetchLog[s][3].status = 200
        /\ pc[s] = "done"
        /\ response[s].status = 200

\* The attempt failed with a cause the loop retries: a rejected fetch, a
\* range GET answered without Content-Range, or a status of 500 and above.
RetryableCause(s, res) ==
    \/ res.kind = "error"
    \/ req[s].range # Null /\ ~res.contentRange
    \/ res.status >= 500

\* C11: the retrying fetcher never returns a response with a status of 500
\* or above; an attempt that ends in a 5xx response, in a range GET answered
\* without Content-Range or in a network failure is followed by another
\* attempt or by the error of the exhausted loop, and a response that is
\* returned is that of the latest attempt, which did not fail.
C11_FailuresStayInside ==
    \A s \in DOMAIN pc :
        /\ fetchResult[s].kind = "returned" => fetchResult[s].response.status < 500
        /\ response[s].source \in {"s3", "cache"} => response[s].status < 500
        /\ \A k \in 1..Len(fetchLog[s]) :
              RetryableCause(s, fetchLog[s][k])
                  => \/ k < Len(fetchLog[s])
                     \/ pc[s] \in {"backoff", "s3Backoff", "fetch", "s3Fetch"}
                     \/ fetchResult[s].kind = "thrown"
        /\ (fetchResult[s].kind = "returned" /\ fetchLog[s] # <<>>)
              => /\ ~RetryableCause(s, fetchLog[s][Len(fetchLog[s])])
                 /\ fetchResult[s].response.status = fetchLog[s][Len(fetchLog[s])].status

\* A range GET: a 502, then a 200 without Content-Range, then the 206 that
\* is returned.
C11_Witness ==
    \E s \in DOMAIN pc :
        /\ req[s].range # Null
        /\ Len(fetchLog[s]) = 3
        /\ fetchLog[s][1].status = 502
        /\ fetchLog[s][2].status = 200 /\ ~fetchLog[s][2].contentRange
        /\ fetchLog[s][3].status = 206
        /\ fetchResult[s].kind = "returned"
        /\ fetchResult[s].response.status = 206

\* C12: for a request without a Range header, an origin response with a 4xx
\* status ends the fetch: it is the last attempt, no back-off follows it
\* (the sleeps taken are those of the failed attempts before it), it is
\* returned, not thrown, and it is returned with its status, headers and
\* body.
C12_ClientErrorReturnedAtOnce ==
    \A s \in DOMAIN pc :
        \A k \in 1..Len(fetchLog[s]) :
            (/\ req[s].range = Null
             /\ fetchLog[s][k].kind = "response"
             /\ fetchLog[s][k].status >= 400 /\ fetchLog[s][k].status <= 499)
                => /\ k = Len(fetchLog[s])
                   /\ pc[s] = "done"
                   /\ attempt[s] = k - 1
                   /\ fetchResult[s].kind = "returned"
                   /\ [fetchResult[s].response EXCEPT !.xCacheDebug = FALSE] = fetchLog[s][k]
                   /\ response[s].status = fetchLog[s][k].status

\* A 404 on the first of three allowed attempts.
C12_Witness ==
    \E s \in DOMAIN pc :
        /\ env.RANGE_RETRY_ATTEMPTS = 3
        /\ req[s].range = Null
        /\ Len(fetchLog[s]) = 1
        /\ fetchLog[s][1].status = 404
        /\ attempt[s] = 0
        /\ fetchResult[s].kind = "returned"
        /\ response[s].status = 404

\* Every attempt the loop was allowed has been made and has failed.
Exhausted(s) ==
    /\ Len(fetchLog[s]) = env.RANGE_RETRY_ATTEMPTS
    /\ \A k \in 1..Len(fetchLog[s]) : RetryableCause(s, fetchLog[s][k])
    /\ pc[s] \notin {"backoff", "s3Backoff"}

\* C13: when all RANGE_RETRY_ATTEMPTS attempts of a fetch have failed with
\* retryable causes the fetcher makes no further attempt and throws
\* "Failed after <attempts> attempts: <cause of the last failed attempt>",
\* which the file route answers with 502; it throws in no other case.
C13_ExhaustedThrowsLastCause ==
    \A s \in DOMAIN pc :
        /\ Exhausted(s)
              => /\ pc[s] = "done"
                 /\ fetchResult[s].kind = "thrown"
                 /\ fetchResult[s].attempts = env.RANGE_RETRY_ATTEMPTS
                 /\ fetchResult[s].error
                        = FetchAttemptError(RequestHeaders(req[s]),
                                            fetchLog[s][Len(fetchLog[s])])
                 /\ response[s] = Response(502, "none", FALSE)
        /\ fetchResult[s].kind = "thrown" => Exhausted(s)

\* Two attempts allowed: a 502, then a network failure, whose cause the
\* error carries.
C13_Witness ==
    \E s \in DOMAIN pc :
        /\ env.RANGE_RETRY_ATTEMPTS = 2
        /\ Len(fetchLog[s]) = 2
        /\ fetchLog[s][1].status = 502
        /\ fetchLog[s][2].kind = "error"
        /\ fetchResult[s].kind = "thrown"
        /\ fetchResult[s].error.cause = "network"
        /\ response[s].status = 502

\* C18: with caching disabled a file request makes no cache lookup and no
\* cache write, no write is pending or applied (the store is as it was),
\* and what cachedS3Fetch returns is the response of the retrying fetcher's
\* last attempt, as it came, with cacheResult hit = false, source = "s3".
C18_DisabledBypassesCache ==
    ~CacheConfigEnabled(env)
        => /\ pendingPuts = {}
           /\ lastPut = NoPut
           /\ cacheStore = EmptyStore
           /\ \A s \in DOMAIN pc :
                 /\ ~lookedUp[s]
                 /\ matched[s] = NoMatch
                 /\ puts[s] = {}
                 /\ fetchResult[s].kind = "returned"
                       => /\ fetchLog[s] # <<>>
                          /\ fetchResult[s].response = fetchLog[s][Len(fetchLog[s])]
                          /\ fetchResult[s].cacheResult = [hit |-> FALSE, source |-> "s3"]

\* Caching is disabled and the origin's answer came out of the edge cache:
\* it is returned as fetched from S3 and nothing is stored.
C18_Witness ==
    /\ ~CacheConfigEnabled(env)
    /\ \E s \in DOMAIN pc :
          /\ pc[s] = "done"
          /\ Len(fetchLog[s]) = 2
          /\ fetchLog[s][2].status = 200
          /\ fetchLog[s][2].edgeHit
          /\ fetchResult[s].kind = "returned"
          /\ fetchResult[s].cacheResult.source = "s3"
          /\ response[s].status = 200

\* C14: when cache.match finds an entry for a request, the request makes no
\* origin attempt and no cache.put, and cachedS3Fetch returns, with
\* cacheResult hit = true and source = "cache", the 304 of
\* createConditionalResponse when there is one and the entry with its body
\* and headers otherwise.
C14_HitServedFromCache ==
    \A s \in DOMAIN pc :
        matched[s].outcome = "entry"
            => LET entry == matched[s].entry
                   conditionalResponse ==
                       createConditionalResponse(req[s].conditions, entry)
               IN  /\ fetchLog[s] = <<>>
                   /\ puts[s] = {}
                   /\ pc[s] = "done"
                   /\ fetchResult[s].kind = "returned"
                   /\ fetchResult[s].cacheResult = [hit |-> TRUE, source |-> "cache"]
                   /\ [fetchResult[s].response EXCEPT !.xCacheDebug = FALSE]
                          = IF conditionalResponse.kind # "none"
                                THEN conditionalResponse
                                ELSE entry

\* The times the worker's clock has shown so far.
ClockTimes == {2000 * i : i \in 0..(now \div 2000)}

\* The response is one the cacheability rule admits: a 2xx other than 206,
\* without Vary: * and without no-cache or no-store in Cache-Control.
Eligible(res) ==
    /\ res.kind = "response"
    /\ res.status >= 200 /\ res.status <= 299 /\ res.status # 206
    /\ res.vary # Str(<<"*">>)
    /\ \/ res.cacheControl = Null
       \/ /\ ~Includes(res.cacheControl, Str(<<"n", "o", "-", "c", "a", "c", "h", "e">>))
          /\ ~Includes(res.cacheControl, Str(<<"n", "o", "-", "s", "t", "o", "r", "e">>))

\* The request missed the Cache API store and cachedS3Fetch returned the
\* response of its last origin attempt.
MissAnswered(s) ==
    /\ req[s].route = "file"
    /\ getCacheConfig(env).enabled
    /\ matched[s].outcome \in {"nothing", "threw"}
    /\ fetchResult[s].kind = "returned"
    /\ fetchLog[s] # <<>>

\* A cache.put of res under the request's key with Cache-Control:
\* max-age=<calculateTtl(res)> was made for the request.
WrittenWithTtl(s, res) ==
    \E t \in ClockTimes :
        puts[s] = {[key |-> FileCacheKey(env, req[s]),
                    entry |-> [res EXCEPT
                                  !.cacheControl =
                                      Str(<<"m", "a", "x", "-", "a", "g", "e", "=">>) \o
                                          NumberToString(calculateTtl(res, getCacheConfig(env), t)),
                                  !.xCacheStored = TRUE]]}

\* C15 as stated: on a miss with caching enabled, every successful origin
\* response that is eligible for caching is written under the request's
\* cache key with Cache-Control: max-age equal to calculateTtl's result.
C15_EveryEligibleResponseWritten ==
    \A s \in DOMAIN pc :
        LET res == fetchLog[s][Len(fetchLog[s])]
        IN  (MissAnswered(s) /\ Eligible(res)) => WrittenWithTtl(s, res)

\* C15, amended: on a miss with caching enabled, every successful origin
\* response that is eligible for caching and did not come out of the edge
\* cache (cf-cache-status is not HIT) has a cache.put made for it under the
\* request's cache key with Cache-Control: max-age equal to calculateTtl's
\* result; for one that came out of the edge cache no cache.put is made.
C15_EligibleResponseWrittenUnlessEdgeHit ==
    \A s \in DOMAIN pc :
        LET res == fetchLog[s][Len(fetchLog[s])]
        IN  (MissAnswered(s) /\ Eligible(res))
                => IF res.edgeHit THEN puts[s] = {} ELSE WrittenWithTtl(s, res)

\* The object came with Cache-Control: public, max-age=30 under a
\* configuration with a minimum of 120 seconds: it is put, and is in the
\* store, with max-age=120.
C15_Witness ==
    \E s \in DOMAIN pc :
        /\ MissAnswered(s)
        /\ fetchLog[s][Len(fetchLog[s])].cacheControl = Str(<<"p", "u", "b", "l", "i", "c", ",", " ", "m", "a", "x", "-", "a", "g", "e", "=", "3", "0">>)
        /\ getCacheConfig(env).minTtlSeconds = 120
        /\ ~getCacheConfig(env).overrideS3Headers
        /\ FileCacheKey(env, req[s]) \in DOMAIN cacheStore
        /\ cacheStore[FileCacheKey(env, req[s])].cacheControl = Str(<<"m", "a", "x", "-", "a", "g", "e", "=", "1", "2", "0">>)
        /\ lastPut.by = s
        /\ lastPut \in {[by |-> s, key |-> p.key, entry |-> p.entry] : p \in puts[s]}

\* What a cache.put was given is a 2xx other than 206 without Vary: *.
StorableEntry(entry) ==
    /\ entry.kind = "response"
    /\ entry.status >= 200 /\ entry.status <= 299 /\ entry.status # 206
    /\ entry.vary # Str(<<"*">>)
    /\ entry.xCacheStored

C17_CacheFailuresAreAbsorbed ==
    \A s \in DOMAIN pc :
        /\ matched[s].outcome = "threw"
              => /\ pc[s] \in {"fetch", "backoff", "done"}
                 /\ pc[s] = "done" => fetchLog[s] # <<>>
        /\ MissAnswered(s)
              => /\ pc[s] = "done"
                 /\ [fetchResult[s].response EXCEPT !.xCacheDebug = FALSE]
                        = fetchLog[s][Len(fetchLog[s])]
                 /\ response[s].status = fetchLog[s][Len(fetchLog[s])].status
                 /\ \A k \in 1..(Len(fetchLog[s]) - 1) : RetryableCause(s, fetchLog[s][k])
                 /\ ~RetryableCause(s, fetchLog[s][Len(fetchLog[s])])
        /\ fetchResult[s].kind = "thrown" => Exhausted(s)
        /\ response[s].status >= 500 => Exhausted(s)

\* cache.match threw, the one origin attempt gave the object, the put made
\* for it is still pending, and the request has its 200.
C17_Witness ==
    \E s \in DOMAIN pc :
        /\ matched[s].outcome = "threw"
        /\ Len(fetchLog[s]) = 1
        /\ puts[s] # {}
        /\ \E p \in pendingPuts : p.by = s
        /\ cacheStore = EmptyStore
        /\ pc[s] = "done"
        /\ response[s].status = 200

\* C19: there is no request coalescing.  A request that missed makes its
\* own origin attempts, is answered with the response of its own last
\* attempt and, when that response is eligible and not an edge hit, makes
\* its own cache.put of it, whatever another request for the same key is
\* doing; and the store holds under a key the entry of the put that was
\* applied to it last.
C19_NoCoalescingLastWriteWins ==
    /\ \A s \in DOMAIN pc :
          LET res == fetchLog[s][Len(fetchLog[s])]
          IN  /\ (lookedUp[s] /\ matched[s].outcome = "nothing" /\ pc[s] = "done")
                     => /\ fetchLog[s] # <<>>
                        /\ fetchResult[s].kind = "returned"
                              => fetchResult[s].response = res
              /\ (MissAnswered(s) /\ Eligible(res) /\ ~res.edgeHit)
                     => WrittenWithTtl(s, res)
    /\ lastPut # NoPut
          => /\ lastPut.key \in DOMAIN cacheStore
             /\ cacheStore[lastPut.key] = lastPut.entry

\* Both requests missed, the first fetched the first version and the second
\* the second version, both puts have been applied, that of the first
\* request last: the store holds the first version.
C19_Witness ==
    /\ DOMAIN pc = {1, 2}
    /\ \A s \in {1, 2} : MissAnswered(s) /\ pc[s] = "done" /\ puts[s] # {}
    /\ FileCacheKey(env, req[1]) = FileCacheKey(env, req[2])
    /\ fetchResult[1].response.body = "first version"
    /\ fetchResult[2].response.body = "second version"
    /\ pendingPuts = {}
    /\ lastPut.by = 1
    /\ cacheStore[FileCacheKey(env, req[1])].body = "first version"

\* C20: for a configuration with minTtlSeconds <= maxTtlSeconds, whatever
\* the response's Cache-Control and Expires and whether or not
\* overrideS3Headers is set, calculateTtl returns a value between
\* minTtlSeconds and maxTtlSeconds.
C20_TtlWithinLimits ==
    (ttlResult.called /\ ttlConfig.minTtlSeconds <= ttlConfig.maxTtlSeconds)
        => /\ ttlConfig.minTtlSeconds <= ttlResult.ttl
           /\ ttlResult.ttl <= ttlConfig.maxTtlSeconds

\* The origin says max-age=100000, the configuration allows 120 to 300
\* seconds and does not override: the result is 300.
C20_Witness ==
    /\ ttlResult.called
    /\ ~ttlConfig.overrideS3Headers
    /\ ttlConfig.minTtlSeconds = 120 /\ ttlConfig.maxTtlSeconds = 300
    /\ ttlResponse.cacheControl = Str(<<"p", "u", "b", "l", "i", "c", ",", " ", "m", "a", "x", "-", "a", "g", "e", "=", "1", "0", "0", "0", "0", "0">>)
    /\ ttlResult.ttl = 300

-----------------------------------------------------------------------------
(* lib/security.ts: validateAndSanitizePrefix *)

\* parseInteger of a binding that is a number or a string of digits (what
\* validateEnvironment lets through): the number, or parseInt of the string.
parseInteger(value) ==
    IF value.kind = "number" THEN value.num ELSE DigitsValue(LeadingDigits(value.str))

\* env.PREFIX_MAX_LENGTH ?? "512" and env.PREFIX_MAX_DEPTH ?? "10"
defaultPrefixMaxLength == EnvString(Str(<<"5", "1", "2">>))
defaultPrefixMaxDepth == EnvString(Str(<<"1", "0">>))
NullishCoalesce(value, default) == IF value.kind = "undefined" THEN default ELSE value

maxReasonableSegmentLength == 128

\* What validateAndSanitizePrefix gives: the sanitized prefix, or the 400
\* it throws, named by its message.
PrefixAccepted(value) == [ok |-> TRUE, error |-> "none", value |-> value]
PrefixRejected(message) == [ok |-> FALSE, error |-> message, value |-> <<>>]

\* validatePrefixLength returns normally.
validatePrefixLength(prefix, maxAllowedLength) == ~(Len(prefix) > maxAllowedLength)

traversalPatterns ==
    <<Str(<<".", ".", "/">>), Str(<<".", ".", "\\">>), Str(<<".", ".">>), Str(<<"%", "2", "e", "%", "2", "e">>), Str(<<"%", "2", "E", "%", "2", "E">>), Str(<<"%", "2", "e", "%", "2", "e", "%", "2", "f">>), Str(<<"%", "2", "E", "%", "2", "E", "%", "2", "F">>),
      Str(<<"%", "2", "e", "%", "2", "e", "%", "5", "c">>), Str(<<"%", "2", "E", "%", "2", "E", "%", "5", "C">>)>>

\* validateNoPathTraversal that compares the prefix as it was sent.
validateNoPathTraversalCaseSensitive(prefix) ==
    /\ \A i \in 1..Len(traversalPatterns) : ~Includes(prefix, traversalPatterns[i])
    /\ ~(\/ StartsWith(prefix, Str(<<".", ".", "/">>))
         \/ EndsWith(prefix, Str(<<"/", ".", ".">>))
         \/ Includes(prefix, Str(<<"/", ".", ".", "/">>))
         \/ prefix = Str(<<".", ".">>))

\* validateNoPathTraversal returns normally.
validateNoPathTraversal(prefix) ==
    LET lowercasePrefix == ToLowerCase(prefix)
    IN  /\ \A i \in 1..Len(traversalPatterns) :
              ~Includes(lowercasePrefix, traversalPatterns[i])
        /\ ~(\/ StartsWith(prefix, Str(<<".", ".", "/">>))
             \/ EndsWith(prefix, Str(<<"/", ".", ".">>))
             \/ Includes(prefix, Str(<<"/", ".", ".", "/">>))
             \/ prefix = Str(<<".", ".">>))

\* [\u0000-\u001F\u007F\u0080-\u009F]
IsControlCharacter(c) == c <= 31 \/ (c >= 127 /\ c <= 159)

\* [a-zA-Z0-9\-_.\/']
IsAllowedCharacter(c) ==
    \/ IsLower(c) \/ IsUpper(c) \/ IsDigit(c)
    \/ c \in {Code("-"), Code("_"), Code("."), Code("/"), Code("'")}

\* sanitizeAndValidateCharacters: the prefix without control characters,
\* and whether the allow-set test passed.
sanitizeAndValidateCharacters(prefix) ==
    LET withoutControlChars == SelectSeq(prefix, LAMBDA c : ~IsControlCharacter(c))
    IN  [hasOnlyAllowedChars |->
             \A i \in 1..Len(withoutControlChars) :
                 IsAllowedCharacter(withoutControlChars[i]),
         value |-> withoutControlChars]

\* s.replace(/c+/g, "/"): every run of the character c becomes one slash.
ReplaceRuns(s, c) ==
    LET kept == SelectSeq([i \in 1..Len(s) |-> i],
                          LAMBDA i : ~(s[i] = c /\ i > 1 /\ s[i - 1] = c))
    IN  [k \in 1..Len(kept) |-> IF s[kept[k]] = c THEN Code("/") ELSE s[kept[k]]]

\* A normalizePath that also drops a slash at the end.
normalizePathWithoutTrailingSlash(prefix) ==
    LET collapsed == ReplaceRuns(ReplaceRuns(prefix, Code("\\")), Code("/"))
        normalizedPath == IF StartsWith(collapsed, Str(<<"/">>)) THEN Tail(collapsed) ELSE collapsed
    IN  IF EndsWith(normalizedPath, Str(<<"/">>))
        THEN SubSeq(normalizedPath, 1, Len(normalizedPath) - 1)
        ELSE normalizedPath

normalizePath(prefix) ==
    LET collapsed == ReplaceRuns(ReplaceRuns(prefix, Code("\\")), Code("/"))
    IN  IF StartsWith(collapsed, Str(<<"/">>)) THEN Tail(collapsed) ELSE collapsed

\* validatePrefixStructure: "ok" when it returns, else the 400 it throws.
validatePrefixStructure(prefix, maxAllowedDepth) ==
    IF prefix = <<>> THEN "ok"
    ELSE LET currentDepth == Len(Split(prefix, Code("/")))
         IN  IF currentDepth > maxAllowedDepth THEN "depth"
             ELSE IF Len(prefix) > maxReasonableSegmentLength * currentDepth
                 THEN "segments"
             ELSE "ok"

\* A validateAndSanitizePrefix that looks for traversal before it looks at
\* the length.
validateAndSanitizePrefixTraversalFirst(prefix, e) ==
    IF prefix = <<>> THEN PrefixAccepted(<<>>)
    ELSE LET trimmed == Trim(prefix)
             maxPrefixLength ==
                 parseInteger(NullishCoalesce(e.PREFIX_MAX_LENGTH, defaultPrefixMaxLength))
             maxPrefixDepth ==
                 parseInteger(NullishCoalesce(e.PREFIX_MAX_DEPTH, defaultPrefixMaxDepth))
             sanitized == sanitizeAndValidateCharacters(trimmed)
             normalized == normalizePath(sanitized.value)
             structure == validatePrefixStructure(normalized, maxPrefixDepth)
         IN  IF ~validateNoPathTraversal(trimmed) THEN PrefixRejected("traversal")
             ELSE IF ~validatePrefixLength(trimmed, maxPrefixLength)
                 THEN PrefixRejected("length")
             ELSE IF ~sanitized.hasOnlyAllowedChars THEN PrefixRejected("characters")
             ELSE IF structure # "ok" THEN PrefixRejected(structure)
             ELSE PrefixAccepted(normalized)

\* validateAndSanitizePrefix: the messages are "Prefix too long" (length),
\* "Path traversal detected" (traversal), "Prefix contains invalid
\* characters" (characters), "Prefix depth exceeds maximum" (depth) and
\* "Prefix segments are excessively long" (segments).
validateAndSanitizePrefix(prefix, e) ==
    IF prefix = <<>> THEN PrefixAccepted(<<>>)
    ELSE LET trimmed == Trim(prefix)
             maxPrefixLength ==
                 parseInteger(NullishCoalesce(e.PREFIX_MAX_LENGTH, defaultPrefixMaxLength))
             maxPrefixDepth ==
                 parseInteger(NullishCoalesce(e.PREFIX_MAX_DEPTH, defaultPrefixMaxDepth))
             sanitized == sanitizeAndValidateCharacters(trimmed)
             normalized == normalizePath(sanitized.value)
             structure == validatePrefixStructure(normalized, maxPrefixDepth)
         IN  IF ~validatePrefixLength(trimmed, maxPrefixLength)
                 THEN PrefixRejected("length")
             ELSE IF ~validateNoPathTraversal(trimmed) THEN PrefixRejected("traversal")
             ELSE IF ~sanitized.hasOnlyAllowedChars THEN PrefixRejected("characters")
             ELSE IF structure # "ok" THEN PrefixRejected(structure)
             ELSE PrefixAccepted(normalized)

-----------------------------------------------------------------------------
(* createConditionalResponse over requests and cached entries.            *)

abcEtag == Str(<<"\"", "a", "b", "c", "\"">>)

\* If-None-Match values that name the entity tag "abc", and values that
\* do not.
CondMatchingValues == {Str(<<"*">>), Str(<<"\"", "a", "b", "c", "\"">>), Str(<<"\"", "x", "y", "z", "\"", ",", " ", "\"", "a", "b", "c", "\"">>), Str(<<"W", "/", "\"", "a", "b", "c", "\"">>)}
CondOtherValues == {Str(<<"\"", "x", "y", "z", "\"">>), Str(<<"a", "b", "c">>), Str(<<"\"", "a", "b", "\"", ",", " ", "\"", "b", "c", "\"">>)}

CondRequests ==
    {[ifNoneMatch |-> inm, ifModifiedSince |-> ims] :
        inm \in {Null} \cup CondMatchingValues \cup CondOtherValues,
        ims \in {NoDate, InvalidDate, HttpDate(0), HttpDate(1000), HttpDate(2000)}}

CondEntries ==
    {[StoredObject(cacheControl, Null, NoDate, "object")
         EXCEPT !.etag = etag, !.lastModified = lastModified] :
        cacheControl \in {Null, Str(<<"m", "a", "x", "-", "a", "g", "e", "=", "6", "0">>)},
        etag \in {Null, abcEtag},
        lastModified \in {NoDate, InvalidDate, HttpDate(1000)}}

NoCond == [called |-> FALSE, response |-> NoObject]

CondInit ==
    /\ cdConditions \in CondRequests
    /\ cdCached \in CondEntries
    /\ cdResult = NoCond
    /\ PrefixIdle
    /\ CanonIdle
    /\ StartIdle
    /\ RetryIdle
    /\ SigIdle
    /\ KeyIdle
    /\ TtlIdle
    /\ WorkerIdle

\* createConditionalResponse(request, cachedResponse) is called.
CreateConditionalResponse ==
    /\ cdResult' = [called |-> TRUE,
                    response |-> createConditionalResponse(cdConditions, cdCached)]
    /\ UNCHANGED <<cdConditions, cdCached, prefixVars, canonVars, startVars, retryVars, sigVars, keyVars,
                   ttlVars, workerVars>>

\* Another request arrives for the entry.
CondNextRequest ==
    /\ cdResult.called
    /\ cdConditions' \in CondRequests \ {cdConditions}
    /\ cdResult' = NoCond
    /\ UNCHANGED <<cdCached, prefixVars, canonVars, startVars, retryVars, sigVars, keyVars, ttlVars, workerVars>>

CondNext == CreateConditionalResponse \/ CondNextRequest

SpecCond == CondInit /\ [][CondNext]_vars

-----------------------------------------------------------------------------
(* validateAndSanitizePrefix over prefixes and limits.                     *)

MaxPrefixPieces == 3   \* pieces a client's prefix is put together from

PrefixPieces ==
    {Str(<<"a">>), Str(<<"a", "/">>), Str(<<".", ".">>), Str(<<"/">>), Str(<<"\\">>), Str(<<"%", "2", "e">>), Str(<<"%", "2", "E">>), Str(<<".">>), Str(<<"!">>), Str(<<" ">>), <<1>>}

RepeatCode(c, n) == [i \in 1..n |-> c]

\* Prefixes beyond the reach of the pieces: the two of the documentation, a
\* prefix that is too long and climbs, and segments of 129 and 128
\* characters.
PrefixExamples ==
    {Str(<<".", ".", "/", ".", ".", "/", "e", "t", "c", "/", "p", "a", "s", "s", "w", "d">>), Str(<<"i", "m", "a", "g", "e", "s", "/", "2", "0", "2", "4", "/">>), Str(<<"a", "/", "a", "/", "a", "/", "a", "/", ".", ".", "/", "b">>),
     RepeatCode(Code("a"), 129), RepeatCode(Code("a"), 128)}

PrefixInputs ==
    {Flatten(q) : q \in SeqsUpTo(PrefixPieces, MaxPrefixPieces)} \cup PrefixExamples

PrefixEnvironments ==
    {[PREFIX_MAX_LENGTH |-> maxLength, PREFIX_MAX_DEPTH |-> maxDepth] :
        maxLength \in {EnvUndefined, EnvString(Str(<<"4">>)), EnvNumber(8)},
        maxDepth \in {EnvUndefined, EnvNumber(2)}}

NoPrefixResult == [called |-> FALSE, result |-> PrefixAccepted(<<>>)]

PrefixInit ==
    /\ pxEnv \in PrefixEnvironments
    /\ pxPrefix \in PrefixInputs
    /\ pxResult = NoPrefixResult
    /\ CondIdle
    /\ CanonIdle
    /\ StartIdle
    /\ RetryIdle
    /\ SigIdle
    /\ KeyIdle
    /\ TtlIdle
    /\ WorkerIdle

\* validateAndSanitizePrefix(rawPrefix, env) is called.
ValidateAndSanitizePrefix ==
    /\ pxResult' = [called |-> TRUE, result |-> validateAndSanitizePrefix(pxPrefix, pxEnv)]
    /\ UNCHANGED <<pxEnv, pxPrefix, condVars, canonVars, startVars, retryVars, sigVars, keyVars, ttlVars,
                   workerVars>>

\* The next list request brings another prefix.
PrefixNextRequest ==
    /\ pxResult.called
    /\ pxPrefix' \in PrefixExamples \ {pxPrefix}
    /\ pxResult' = NoPrefixResult
    /\ UNCHANGED <<pxEnv, condVars, canonVars, startVars, retryVars, sigVars, keyVars, ttlVars, workerVars>>

PrefixNext == ValidateAndSanitizePrefix \/ PrefixNextRequest

SpecPrefix == PrefixInit /\ [][PrefixNext]_vars

-----------------------------------------------------------------------------
(* createCanonicalQueryString over the orderings of a query string.        *)

MaxCanonParams == 3    \* query parameters of the URL

CanonParams ==
    {Param(Str(<<"a">>), Str(<<"1">>)), Param(Str(<<"a">>), Str(<<"2">>)), Param(Str(<<"B">>), Str(<<"!">>)), Param(Str(<<"b", " ", "c">>), Str(<<"1">>)),
     Param(sigName, Str(<<"0", "0">>)), Param(expName, Str(<<"7">>))}

NoCanon == [called |-> FALSE, value |-> <<>>]

CanonInit ==
    /\ cqParams \in SeqsUpTo(CanonParams, MaxCanonParams)
    /\ cqResult = NoCanon
    /\ cqFirst = NoCanon
    /\ CondIdle
    /\ PrefixIdle
    /\ StartIdle
    /\ RetryIdle
    /\ SigIdle
    /\ KeyIdle
    /\ TtlIdle
    /\ WorkerIdle

\* createCanonicalQueryString(url.searchParams, "sig") is called; the
\* result for the ordering the URL came with first is remembered.
Canonicalize ==
    /\ ~cqResult.called
    /\ cqResult' = [called |-> TRUE, value |-> createCanonicalQueryString(cqParams, sigName)]
    /\ cqFirst' = IF cqFirst.called THEN cqFirst ELSE cqResult'
    /\ UNCHANGED <<cqParams, condVars, prefixVars, startVars, retryVars, sigVars, keyVars, ttlVars, workerVars>>

\* The same parameters arrive in another order: two neighbours swapped.
CanonReorder ==
    /\ cqResult.called
    /\ \E i \in 1..(Len(cqParams) - 1) :
          /\ cqParams[i] # cqParams[i + 1]
          /\ cqParams' = [cqParams EXCEPT ![i] = cqParams[i + 1], ![i + 1] = cqParams[i]]
    /\ cqResult' = NoCanon
    /\ UNCHANGED <<cqFirst, condVars, prefixVars, startVars, retryVars, sigVars, keyVars, ttlVars, workerVars>>

CanonNext == Canonicalize \/ CanonReorder

SpecCanon == CanonInit /\ [][CanonNext]_vars

-----------------------------------------------------------------------------
(* Claims about the library functions *)

\* The seconds of the max-age directive each Cache-Control value of
\* TtlCacheControls declares, or -1 when it declares none that parses.
DeclaredMaxAge(cacheControl) ==
    IF cacheControl = Str(<<"m", "a", "x", "-", "a", "g", "e", "=", "0">>) THEN 0
    ELSE IF cacheControl = Str(<<"m", "a", "x", "-", "a", "g", "e", "=", "3", "0">>) THEN 30
    ELSE IF cacheControl = Str(<<"p", "u", "b", "l", "i", "c", ",", " ", "m", "a", "x", "-", "a", "g", "e", "=", "1", "0", "0", "0", "0", "0">>) THEN 100000
    ELSE IF cacheControl = Str(<<"s", "-", "m", "a", "x", "a", "g", "e", "=", "5", ",", " ", "m", "a", "x", "-", "a", "g", "e", "=", "2", "0", "0">>) THEN 200
    ELSE 0 - 1

\* C21: the value calculateTtl clamps is chosen by a fixed precedence: the
\* configured ttlSeconds when overrideS3Headers is set, whatever the origin
\* sent; otherwise the max-age of Cache-Control when there is one that
\* parses; otherwise the whole seconds that remain until an Expires date in
\* the future; otherwise the configured ttlSeconds.
C21_TtlBaseByPrecedence ==
    ttlResult.called =>
        LET maxAge == DeclaredMaxAge(ttlResponse.cacheControl)
            expires == ttlResponse.expires
            base == IF ttlConfig.overrideS3Headers THEN ttlConfig.ttlSeconds
                    ELSE IF maxAge >= 0 THEN maxAge
                    ELSE IF expires.kind = "date" /\ expires.time > ttlNow
                        THEN (expires.time - ttlNow) \div 1000
                    ELSE ttlConfig.ttlSeconds
        IN  ttlResult.ttl =
                Max(ttlConfig.minTtlSeconds, Min(ttlConfig.maxTtlSeconds, base))

\* The origin sends max-age=30 together with an Expires date 1,000,000
\* seconds ahead, the configuration (default 3600, limits 1 to 60) does not
\* override: the result is 30.
C21_Witness ==
    /\ ttlResult.called
    /\ ~ttlConfig.overrideS3Headers
    /\ ttlConfig.ttlSeconds = 3600
    /\ ttlConfig.minTtlSeconds = 1 /\ ttlConfig.maxTtlSeconds = 60
    /\ ttlResponse.cacheControl = Str(<<"m", "a", "x", "-", "a", "g", "e", "=", "3", "0">>)
    /\ ttlResponse.expires = HttpDate(1000000000)
    /\ ttlNow = 0
    /\ ttlResult.ttl = 30

\* What a header holds when the entry lacks the one it is copied from.
CondCacheControl == IF cdCached.cacheControl = Null THEN <<>> ELSE cdCached.cacheControl

\* C22: for a request with If-None-Match and an entry with an ETag,
\* createConditionalResponse returns a 304 without body that carries the
\* entry's ETag, Cache-Control and Last-Modified exactly when the client's
\* value is * or contains the entry's ETag; otherwise it returns null.
C22_EtagDecides ==
    (cdResult.called /\ cdConditions.ifNoneMatch # Null /\ cdCached.etag # Null) =>
        IF cdConditions.ifNoneMatch \in CondMatchingValues
        THEN /\ cdResult.response.kind = "synthesized"
             /\ cdResult.response.status = 304
             /\ cdResult.response.body = ""
             /\ cdResult.response.etag = cdCached.etag
             /\ cdResult.response.cacheControl = CondCacheControl
             /\ cdResult.response.lastModified = cdCached.lastModified
        ELSE cdResult.response = NoObject

\* The entry "abc" asked for with If-None-Match: "xyz", "abc" and an
\* If-Modified-Since before its Last-Modified: a 304 with the entry's
\* headers.
C22_Witness ==
    /\ cdResult.called
    /\ cdCached.etag = abcEtag
    /\ cdCached.lastModified = HttpDate(1000)
    /\ cdCached.cacheControl = Str(<<"m", "a", "x", "-", "a", "g", "e", "=", "6", "0">>)
    /\ cdConditions.ifNoneMatch = Str(<<"\"", "x", "y", "z", "\"", ",", " ", "\"", "a", "b", "c", "\"">>)
    /\ cdConditions.ifModifiedSince = HttpDate(0)
    /\ cdResult.response.status = 304
    /\ cdResult.response.etag = abcEtag
    /\ cdResult.response.lastModified = HttpDate(1000)

\* The entry's Last-Modified is at or before the client's If-Modified-Since
\* (both dates parse).
CondNotModifiedSince ==
    /\ cdConditions.ifModifiedSince.kind = "date"
    /\ cdCached.lastModified.kind = "date"
    /\ cdCached.lastModified.time <= cdConditions.ifModifiedSince.time

\* C23: without If-None-Match, a request with If-Modified-Since gets a 304
\* exactly when the entry's Last-Modified is at or before the client's
\* date, and a request with neither header gets none; with If-None-Match
\* present and not producing a 304 the result is null, whatever
\* If-Modified-Since says.
C23_LastModifiedOnlyWithoutEtag ==
    cdResult.called =>
        /\ cdConditions.ifNoneMatch = Null =>
              /\ cdResult.response.status = 304
                    <=> (cdConditions.ifModifiedSince.kind # "absent" /\ CondNotModifiedSince)
              /\ cdResult.response.status # 304 => cdResult.response = NoObject
        /\ (/\ cdConditions.ifNoneMatch # Null
            /\ ~(cdCached.etag # Null /\ cdConditions.ifNoneMatch \in CondMatchingValues))
              => cdResult.response = NoObject

\* If-None-Match: "xyz" does not match the entry "abc"; If-Modified-Since
\* is later than the entry's Last-Modified and would alone give a 304: the
\* result is null.
C23_Witness ==
    /\ cdResult.called
    /\ cdCached.etag = abcEtag
    /\ cdCached.lastModified = HttpDate(1000)
    /\ cdConditions.ifNoneMatch = Str(<<"\"", "x", "y", "z", "\"">>)
    /\ cdConditions.ifModifiedSince = HttpDate(2000)
    /\ cdResult.response = NoObject

\* The limits a deployment's bindings stand for.
PxMaxLength ==
    IF pxEnv.PREFIX_MAX_LENGTH = EnvUndefined THEN 512
    ELSE IF pxEnv.PREFIX_MAX_LENGTH = EnvNumber(8) THEN 8 ELSE 4
PxMaxDepth == IF pxEnv.PREFIX_MAX_DEPTH = EnvUndefined THEN 10 ELSE 2

\* A path-traversal indicator: two dots in a row, or %2e%2e in any case.
HasTraversalIndicator(prefix) ==
    \/ \E i \in 1..(Len(prefix) - 1) : prefix[i] = Code(".") /\ prefix[i + 1] = Code(".")
    \/ \E i \in 1..(Len(prefix) - 5) :
          /\ prefix[i] = Code("%") /\ prefix[i + 1] = Code("2")
          /\ prefix[i + 2] \in {Code("e"), Code("E")}
          /\ prefix[i + 3] = Code("%") /\ prefix[i + 4] = Code("2")
          /\ prefix[i + 5] \in {Code("e"), Code("E")}

\* C24: a prefix no longer than PREFIX_MAX_LENGTH that contains ".."
\* anywhere, or %2e%2e in any letter case, is rejected by
\* validateAndSanitizePrefix with the path-traversal error.
C24_TraversalRejected ==
    (pxResult.called /\ Len(pxPrefix) <= PxMaxLength /\ HasTraversalIndicator(pxPrefix))
        => pxResult.result = PrefixRejected("traversal")

\* %2E%2e, within the limit of 8 characters, is rejected as a traversal.
C24_Witness ==
    /\ pxResult.called
    /\ pxPrefix = Str(<<"%", "2", "E", "%", "2", "e">>)
    /\ PxMaxLength = 8
    /\ pxResult.result = PrefixRejected("traversal")

PxTrimmed == Trim(pxPrefix)
PxSanitized == SelectSeq(PxTrimmed, LAMBDA c : c > 31 /\ c # 127)
PxNormalized == normalizePath(PxSanitized)
PxDepth == 1 + Cardinality({i \in 1..Len(PxNormalized) : PxNormalized[i] = Code("/")})

\* The error of the earliest check the prefix violates, in the order
\* length, traversal, characters, depth, segment length.
PxFirstViolation ==
    IF pxPrefix = <<>> THEN "none"
    ELSE IF Len(PxTrimmed) > PxMaxLength THEN "length"
    ELSE IF HasTraversalIndicator(PxTrimmed) THEN "traversal"
    ELSE IF \E i \in 1..Len(PxSanitized) : ~IsAllowedCharacter(PxSanitized[i])
        THEN "characters"
    ELSE IF PxNormalized = <<>> THEN "none"
    ELSE IF PxDepth > PxMaxDepth THEN "depth"
    ELSE IF Len(PxNormalized) > 128 * PxDepth THEN "segments"
    ELSE "none"

\* C25: validateAndSanitizePrefix checks length, traversal, characters
\* (after stripping control characters), then, on the normalized prefix,
\* depth and average segment length, and stops at the first check that
\* fails: the error is that of the earliest violated check, and a prefix
\* that violates none is accepted.
C25_EarliestViolationReported ==
    pxResult.called =>
        /\ pxResult.result.error = PxFirstViolation
        /\ pxResult.result.ok <=> PxFirstViolation = "none"

\* a/a/a/a/../b is longer than the limit of 8, climbs and is deeper than
\* 2: it is rejected as too long.
C25_Witness ==
    /\ pxResult.called
    /\ pxPrefix = Str(<<"a", "/", "a", "/", "a", "/", "a", "/", ".", ".", "/", "b">>)
    /\ PxMaxLength = 8 /\ PxMaxDepth = 2
    /\ pxResult.result = PrefixRejected("length")

imagesPrefix == Str(<<"i", "m", "a", "g", "e", "s", "/", "2", "0", "2", "4", "/">>)

\* C26 as stated: an accepted prefix that ends with a slash is returned
\* without it; images/2024/ with depth limit 10 gives images/2024.
C26_TrailingSlashRemoved ==
    pxResult.called =>
        /\ (pxPrefix = imagesPrefix /\ PxMaxDepth = 10 /\ PxMaxLength >= Len(imagesPrefix))
              => pxResult.result = PrefixAccepted(Str(<<"i", "m", "a", "g", "e", "s", "/", "2", "0", "2", "4">>))
        /\ pxResult.result.ok => ~EndsWith(pxResult.result.value, Str(<<"/">>))

\* C26: an accepted prefix that ends with a slash is returned with the
\* slash kept (unless nothing is left of it): images/2024/ with depth limit
\* 10 is accepted and returned as images/2024/.
C26_TrailingSlashKept ==
    pxResult.called =>
        /\ (pxPrefix = imagesPrefix /\ PxMaxDepth = 10 /\ PxMaxLength >= Len(imagesPrefix))
              => pxResult.result = PrefixAccepted(imagesPrefix)
        /\ (/\ pxResult.result.ok
            /\ EndsWith(PxTrimmed, Str(<<"/">>))
            /\ pxResult.result.value # <<>>)
              => EndsWith(pxResult.result.value, Str(<<"/">>))

\* images/2024/ under the default limits: accepted, slash and all.
C26_Witness ==
    /\ pxResult.called
    /\ pxPrefix = imagesPrefix
    /\ pxEnv.PREFIX_MAX_LENGTH = EnvUndefined /\ pxEnv.PREFIX_MAX_DEPTH = EnvUndefined
    /\ pxResult.result = PrefixAccepted(imagesPrefix)

\* The name=value pieces of a canonical query string.
CanonPieces(canonical) ==
    IF canonical = <<>> THEN <<>> ELSE Split(canonical, Code("&"))

\* The encoded name=value piece of a parameter.
CanonPiece(p) == rfc3986Encode(p.name) \o <<Code("=")>> \o rfc3986Encode(p.value)

CountIn(seq, x) == Cardinality({i \in 1..Len(seq) : seq[i] = x})

\* The canonical string holds every parameter but those named sig, as often
\* as the URL does.
CanonHoldsAllButSig ==
    LET pieces == CanonPieces(cqResult.value)
        kept == SelectSeq(cqParams, LAMBDA p : p.name # sigName)
        expected == [i \in 1..Len(kept) |-> CanonPiece(kept[i])]
    IN  /\ Len(pieces) = Len(expected)
        /\ \A i \in 1..Len(expected) :
              CountIn(pieces, expected[i]) = CountIn(expected, expected[i])

\* C27: createCanonicalQueryString returns the same string for every
\* ordering of the same query parameters, and the string holds every
\* parameter except the one named by excludeParam.
C27_SameForEveryOrdering ==
    cqResult.called =>
        /\ cqResult.value = cqFirst.value
        /\ CanonHoldsAllButSig

\* The name of a piece: what stands before its first "=".
PieceName(piece) == Split(piece, Code("="))[1]

\* C28: the canonical query string lists the parameters by name in
\* code-point order, upper-case ASCII letters before lower-case ones.
C28_NamesInCodePointOrder ==
    cqResult.called =>
        LET pieces == CanonPieces(cqResult.value)
        IN  \A i \in 1..(Len(pieces) - 1) :
                LexCompare(PieceName(pieces[i]), PieceName(pieces[i + 1])) <= 0

SgSig == SearchParamsGet(sgUrl.searchParams, sigName)
SgExp == SearchParamsGet(sgUrl.searchParams, expName)

\* A sig that is not a string of hexadecimal byte pairs: odd length, or a
\* character that is no hexadecimal digit.
SgSigMalformed ==
    \/ Len(SgSig) % 2 = 1
    \/ \E i \in 1..Len(SgSig) :
          ~(\/ IsDigit(SgSig[i])
            \/ (SgSig[i] >= Code("a") /\ SgSig[i] <= Code("f"))
            \/ (SgSig[i] >= Code("A") /\ SgSig[i] <= Code("F")))

\* C29: a sig of odd length or with a non-hexadecimal character, on a URL
\* that is neither missing a parameter nor expired, is rejected as
\* malformed: not as a bad signature, and never accepted.
C29_MalformedSigRejectedAsMalformed ==
    (sgResult \notin {NoResult, "missing", "expired"} /\ SgSigMalformed)
        => sgResult = "malformed"

SgMissing == ~SigUrlHasSig \/ ~IsTruthy(SgExp)
SgExpired == SigUrlHasNumericExp /\ sgNow > SigExp(sgUrl) * 1000
\* A sig in which the decoder finds no byte: line terminators only.
SgUndecodable == \A i \in 1..Len(SgSig) : SgSig[i] \in {10, 13}

\* C30: verifySignature reports the first defect in the order missing sig
\* or exp, expired, sig that cannot be decoded, signature mismatch: a URL
\* without exp is rejected as missing whatever its sig, an expired URL as
\* expired whatever its sig.
C30_FirstDefectReported ==
    sgResult # NoResult =>
        IF SgMissing THEN sgResult = "missing"
        ELSE IF SgExpired THEN sgResult = "expired"
        ELSE IF SgUndecodable THEN sgResult = "malformed"
        ELSE sgResult \in {"ok", "invalid"}

\* A URL presented with a signature that is not the issued one and without
\* exp: rejected as missing.
C30_Witness ==
    /\ sgTamper = "dropped"
    /\ SgExp = Null
    /\ SgSig \in ForgedSignatures
    /\ sgResult = "missing"

-----------------------------------------------------------------------------
(* lib/cache.ts performFetchWithRetry, lib/aws-client.ts s3Fetch: the      *)
(* back-off between attempts                                                 *)

baseDelayMs == 200
jitterLimit == 100

\* A back-off that grows by the base delay with every attempt.
backoffDelayLinear(attemptNo, jitterMs) == baseDelayMs * (attemptNo + 1) + jitterMs

\* 200 * 2 ** attempt + Math.random() * 100, for the jitter drawn.
backoffDelay(attemptNo, jitterMs) == baseDelayMs * (2 ^ attemptNo) + jitterMs

-----------------------------------------------------------------------------
(* Serving and purging: file GETs fill the cache through cachedS3Fetch and *)
(* POST /__cache/purge requests name keys or a pattern.                     *)

PurgeEnvironments ==
    {Environment(EnvUndefined, Null, Null, purgeSecret, EnvUndefined, attempts) :
        attempts \in 1..2}

PurgeInit == WorkerInit(PurgeEnvironments, {EmptyStore}, Slots(1))

PurgeNext ==
    \/ \E s \in DOMAIN pc : FileGet(s, {UnsignedUrl(filePathname)}, {Null}, {NoConditions})
    \/ \E s \in DOMAIN pc : CachedS3Fetch(s, {FALSE}, {FALSE})
    \/ \E s \in DOMAIN pc : FetchAttempt(s, "plain", {FALSE})
    \/ \E s \in DOMAIN pc : BackoffElapsed(s)
    \/ \E s \in DOMAIN pc : PurgeRoute(s)
    \/ \E s \in DOMAIN pc : Deliver(s)
    \/ PutLands
    \/ PutRejects

SpecPurge == PurgeInit /\ [][PurgeNext]_vars

-----------------------------------------------------------------------------
(* Ranged GETs against an origin that may ignore the Range header, with    *)
(* and without the Cache API in front of the fetch.                          *)

RangeEnvironments ==
    {Environment(EnvUndefined, Null, Null, Null, cacheEnabled, attempts) :
        cacheEnabled \in CacheEnabledBindings, attempts \in 1..MaxAttempts}

RangeInit == WorkerInit(RangeEnvironments, {EmptyStore}, Slots(1))

RangeNext ==
    \/ \E s \in DOMAIN pc : FileGet(s, {UnsignedUrl(filePathname)}, {rangeValue}, {NoConditions})
    \/ \E s \in DOMAIN pc : CachedS3Fetch(s, {FALSE}, {FALSE})
    \/ \E s \in DOMAIN pc : FetchAttempt(s, "ranges", {FALSE})
    \/ \E s \in DOMAIN pc : BackoffElapsed(s)
    \/ \E s \in DOMAIN pc : S3FetchAttempt(s, "ranges")
    \/ \E s \in DOMAIN pc : S3BackoffElapsed(s)
    \/ \E s \in DOMAIN pc : Deliver(s)

SpecRange == RangeInit /\ [][RangeNext]_vars

-----------------------------------------------------------------------------
(* The retry loops on their own: performFetchWithRetry and s3Fetch run one *)
(* logical fetch; the trace keeps its attempts and its sleeps.               *)

\* Math.random() * 100 lies in [0, 100); milliseconds at both ends and in
\* the middle.
Jitters == {0, jitterLimit \div 2, jitterLimit - 1}

AttemptMade(n) == [kind |-> "attempt", n |-> n, ms |-> 0]
Slept(n, ms) == [kind |-> "sleep", n |-> n, ms |-> ms]

RetryInit ==
    /\ rtVia \in {"performFetchWithRetry", "s3Fetch"}
    /\ rtHeaders \in {[range |-> Null, acceptEncoding |-> Null],
                      [range |-> rangeValue, acceptEncoding |-> Null]}
    /\ rtAttempts \in 1..MaxAttempts
    /\ rtAttempt = 0
    /\ rtPc = "attempting"
    /\ rtTrace = <<>>
    /\ CondIdle
    /\ PrefixIdle
    /\ CanonIdle
    /\ StartIdle
    /\ SigIdle
    /\ KeyIdle
    /\ TtlIdle
    /\ WorkerIdle

\* The body of the loop up to the timer: the attempt and, when it throws, the
\* start of the sleep.
RetryAttempt ==
    /\ rtPc = "attempting"
    /\ \E res \in RangeOutcomes, jitterMs \in Jitters :
          LET outcome == IF rtVia = "s3Fetch"
                             THEN performS3FetchAttempt(rtHeaders, res)
                             ELSE performFetchAttempt(rtHeaders, res)
          IN  IF outcome = "return"
                  THEN /\ rtPc' = "returned"
                       /\ rtTrace' = Append(rtTrace, AttemptMade(rtAttempt))
                  ELSE /\ rtPc' = "sleeping"
                       /\ rtTrace' = rtTrace \o <<AttemptMade(rtAttempt),
                                                  Slept(rtAttempt, backoffDelay(rtAttempt, jitterMs))>>
    /\ UNCHANGED <<rtVia, rtHeaders, rtAttempts, rtAttempt, condVars, prefixVars, canonVars,
                   startVars, sigVars, keyVars, ttlVars, workerVars>>

\* The timer fires: the counter is incremented and the loop condition is
\* evaluated.
RetryTimerFires ==
    /\ rtPc = "sleeping"
    /\ rtAttempt' = rtAttempt + 1
    /\ rtPc' = IF (IF rtVia = "s3Fetch"
                       THEN S3HasAttemptsLeft(rtAttempt + 1, rtAttempts)
                       ELSE HasAttemptsLeft(rtAttempt + 1, rtAttempts))
                   THEN "attempting" ELSE "thrown"
    /\ UNCHANGED <<rtVia, rtHeaders, rtAttempts, rtTrace, condVars, prefixVars, canonVars,
                   startVars, sigVars, keyVars, ttlVars, workerVars>>

RetryNext == RetryAttempt \/ RetryTimerFires

SpecRetry == RetryInit /\ [][RetryNext]_vars

-----------------------------------------------------------------------------
(* The shared cache: two requests in flight, for one file or for two, and  *)
(* purges between their steps.                                               *)

SharedEnvironments == {Environment(EnvUndefined, Null, Null, purgeSecret, EnvUndefined, 1)}

SharedPaths == {filePathname, otherFilePathname}

SharedPurgeBodies ==
    {PurgeKeys(<<bucketPath \o filePathname>>),
     PurgeKeys(<<bucketPath \o filePathname, bucketPath \o otherFilePathname>>)}

\* POST /__cache/purge by keys, first definition of the router.
SharedPurge(s) ==
    CacheRoute(s, "purge", purgePathname, {UnsignedUrl(purgePathname)}, SharedPurgeBodies, "first")

SharedInit == WorkerInit(SharedEnvironments, {EmptyStore}, Slots(2))

SharedNext ==
    \/ \E s \in DOMAIN pc :
          FileGet(s, {UnsignedUrl(p) : p \in SharedPaths}, {Null}, {NoConditions})
    \/ \E s \in DOMAIN pc : CachedS3Fetch(s, {FALSE}, {FALSE})
    \/ \E s \in DOMAIN pc : FetchAttempt(s, "files", {FALSE})
    \/ \E s \in DOMAIN pc : BackoffElapsed(s)
    \/ \E s \in DOMAIN pc : SharedPurge(s)
    \/ \E s \in DOMAIN pc : Deliver(s)
    \/ PutLands

SpecShared == SharedInit /\ [][SharedNext]_vars

-----------------------------------------------------------------------------
(* Start-up validation: one isolate, its environment, and the calls of      *)
(* ensureEnvironmentValidated that its requests make.                        *)

MaxCalls == 3     \* calls of ensureEnvironmentValidated in one isolate

StartMinBindings ==
    {EnvUndefined, EnvNumber(0), EnvNumber(1), EnvNumber(60), EnvNumber(120), EnvNumber(86400),
     EnvNumber(86401), EnvString(Str(<<"1", "2", "0">>)), EnvString(Str(<<"7", "0", "s">>)), EnvString(Str(<<"a", "b", "c">>))}
StartMaxBindings ==
    {EnvUndefined, EnvNumber(59), EnvNumber(60), EnvNumber(100), EnvNumber(86400),
     EnvNumber(604800), EnvString(Str(<<"1", "0", "0">>)), EnvString(Str(<<"1", "e", "2">>))}

StartEnvironments ==
    {[Environment(EnvUndefined, Null, Null, Null, EnvUndefined, 1) EXCEPT
         !.CACHE_MIN_TTL_SECONDS = minTtl, !.CACHE_MAX_TTL_SECONDS = maxTtl] :
        minTtl \in StartMinBindings, maxTtl \in StartMaxBindings}

StartInit ==
    /\ env \in StartEnvironments
    /\ isEnvironmentValidated = FALSE
    /\ now = 0 /\ cacheStore = <<>> /\ pendingPuts = {} /\ lastPut = NotUsed
    /\ req = NotUsed /\ pc = NotUsed /\ access = NotUsed /\ lookedUp = NotUsed
    /\ matched = NotUsed /\ attempt = NotUsed /\ lastErr = NotUsed /\ fetchLog = NotUsed
    /\ puts = NotUsed /\ fetchResult = NotUsed /\ response = NotUsed
    /\ executed = NotUsed
    /\ evCalls = 0
    /\ evValidations = 0
    /\ evLast = "none"
    /\ CondIdle
    /\ PrefixIdle
    /\ CanonIdle
    /\ RetryIdle
    /\ SigIdle
    /\ KeyIdle
    /\ TtlIdle

\* environmentValidationMiddleware of a request: one call of
\* ensureEnvironmentValidated with the environment of the isolate.
EnsureEnvironmentValidated ==
    /\ evCalls < MaxCalls
    /\ evCalls' = evCalls + 1
    /\ evValidations' = IF skipsValidation(isEnvironmentValidated)
                            THEN evValidations ELSE evValidations + 1
    /\ isEnvironmentValidated' = ensureEnvironmentValidated(env, isEnvironmentValidated)
    /\ evLast' = IF ensureEnvironmentValidated(env, isEnvironmentValidated)
                     THEN "returned" ELSE "threw"
    /\ UNCHANGED <<env, now, cacheStore, pendingPuts, lastPut, requestVars, condVars,
                   prefixVars, canonVars, retryVars, sigVars, keyVars, ttlVars>>

StartNext == EnsureEnvironmentValidated

SpecStart == StartInit /\ [][StartNext]_vars

-----------------------------------------------------------------------------
(* Refusals of verifySignature as the client sees them *)

SignatureFailures == {"missing", "expired", "malformed", "invalid"}

\* C31: every failure of verifySignature (missing credential, expired,
\* malformed signature, bad signature) reaches the client through app.onError
\* with status 403, and the responses to two kinds of failure at one time
\* differ in nothing but the message.
C31_EveryFailureIs403 ==
    sgResult \in SignatureFailures
        => LET mine == onError(verifySignatureException(sgResult), sgNow)
           IN  /\ mine.status = 403
               /\ \A other \in SignatureFailures :
                     LET theirs == onError(verifySignatureException(other), sgNow)
                     IN  /\ [theirs EXCEPT !.error = mine.error] = mine
                         /\ (other # sgResult) => theirs.error # mine.error

\* An issued URL presented after its expiry has been refused.
C31_Witness ==
    /\ sgResult = "expired"
    /\ sgTamper = "none"
    /\ onError(verifySignatureException(sgResult), sgNow).status = 403

-----------------------------------------------------------------------------
(* Cache keys of one query in two orders *)

\* B asks for the path of A with the parameters of A, each as often as in A,
\* under the same selected headers and version.
SameQueryInAnotherOrder(a, b) ==
    /\ a.url.pathname = b.url.pathname
    /\ a.headers = b.headers
    /\ a.version = b.version
    /\ Len(a.url.searchParams) = Len(b.url.searchParams)
    /\ \A i \in 1..Len(a.url.searchParams) :
          Occurrences(a.url.searchParams, a.url.searchParams[i])
              = Occurrences(b.url.searchParams, a.url.searchParams[i])

\* C32: two requests with the same path, the same query parameters in a
\* different order, the same selected headers and the same version get the
\* same cache key.
C32_SameKeyForEveryOrdering ==
    SameQueryInAnotherOrder(ckA, ckB) => ckKeyA = ckKeyB

-----------------------------------------------------------------------------
(* Purging what file GETs have stored *)

\* The key under which cachedS3Fetch stores GET /f.
KeyOfFile == FileCacheKey(env, Request("file", UnsignedUrl(filePathname), Null, Null, Null))

\* The step is an executed purge of slot s.
PurgeExecutes(s) ==
    /\ pc[s] = "idle"
    /\ pc'[s] = "done"
    /\ executed'[s] = "purge"

\* C33: a purge by key with the path of a file invalidates the response a
\* GET has stored for the file: the purge counts the entry as purged and the
\* entry is gone, so that the next GET of the file is a miss.
C33_PurgeByPathInvalidates ==
    [][\A s \in DOMAIN pc :
          (/\ PurgeExecutes(s)
           /\ req'[s].body = PurgeKeys(<<filePathname>>)
           /\ KeyOfFile \in DOMAIN cacheStore)
              => /\ response'[s].json.purged = 1
                 /\ KeyOfFile \notin DOMAIN cacheStore']_vars

\* The request of slot s asks for a purge by pattern.
PurgesByPattern(request) ==
    /\ ~request.body.all
    /\ ~request.body.hasKeys
    /\ IsTruthy(request.body.pattern)

patternPurgeMessage == Str(<<"P", "a", "t", "t", "e", "r", "n", "-", "b", "a", "s", "e", "d", " ", "p", "u", "r", "g", "i", "n", "g", " ", "r", "e", "q", "u", "i", "r", "e", "s", " ", "c", "u", "s", "t", "o", "m", " ", "i", "m", "p", "l", "e", "m", "e", "n", "t", "a", "t", "i", "o", "n">>)

\* C34: a purge by pattern is unsupported and surfaced as an error: it
\* deletes no entry of the cache, reports purged = 0 and returns an error
\* message, for every pattern and every content of the cache.
C34_PatternPurgeIsAnError ==
    [][\A s \in DOMAIN pc :
          (PurgeExecutes(s) /\ PurgesByPattern(req'[s]))
              => /\ cacheStore' = cacheStore
                 /\ response'[s].json = [purged |-> 0, errors |-> <<patternPurgeMessage>>]]_vars

\* A purge by a pattern that matches the key of the stored file has been
\* executed and the file is still in the cache.
C34_Witness ==
    \E s \in DOMAIN pc :
        /\ pc[s] = "done"
        /\ executed[s] = "purge"
        /\ PurgesByPattern(req[s])
        /\ RegExpTest(req[s].body.pattern, KeyOfFile)
        /\ KeyOfFile \in DOMAIN cacheStore
        /\ response[s].json.errors # <<>>

-----------------------------------------------------------------------------
(* Ranged GETs *)

WithoutContentRange(res) == res.kind = "response" /\ ~res.contentRange

\* C35: for a GET with a Range header every origin response without
\* Content-Range, whatever its status, is a retryable failure reported as
\* missing content-range: it is not returned to the caller, and when
\* maxAttempts such responses have arrived the fetch ends as exhausted (the
\* handler answers 502).
C35_MissingContentRangeIsRetried ==
    \A s \in DOMAIN pc :
        (req[s].route = "file" /\ req[s].range # Null /\ fetchLog[s] # <<>>)
            => LET last == fetchLog[s][Len(fetchLog[s])]
                   maxAttempts == int(env.RANGE_RETRY_ATTEMPTS)
               IN  /\ WithoutContentRange(last)
                      => /\ fetchResult[s].kind # "returned"
                         /\ lastErr[s] = [cause |-> "Missing content-range",
                                          status |-> last.status]
                         /\ pc[s] \in {"backoff", "s3Backoff", "fetch", "s3Fetch", "done"}
                   /\ (/\ Len(fetchLog[s]) = maxAttempts
                       /\ \A i \in 1..maxAttempts : WithoutContentRange(fetchLog[s][i])
                       /\ pc[s] \notin {"backoff", "s3Backoff"})
                      => /\ pc[s] = "done"
                         /\ fetchResult[s].kind = "thrown"
                         /\ fetchResult[s].attempts = maxAttempts
                         /\ response[s].status = 502

\* Three answers without Content-Range, a 200, a 304 and a 404 among them,
\* have exhausted a ranged GET.
C35_Witness ==
    \E s \in DOMAIN pc :
        /\ pc[s] = "done"
        /\ req[s].range # Null
        /\ Len(fetchLog[s]) = 3
        /\ \A i \in 1..3 : WithoutContentRange(fetchLog[s][i])
        /\ {fetchLog[s][i].status : i \in 1..3} = {200, 304, 404}
        /\ fetchResult[s].kind = "thrown"

-----------------------------------------------------------------------------
(* Back-off of the retry loops *)

TwoToThe(n) == IF n = 0 THEN 1 ELSE IF n = 1 THEN 2 ELSE IF n = 2 THEN 4 ELSE 8

Sleeps == SelectSeq(rtTrace, LAMBDA e : e.kind = "sleep")
Attempts == SelectSeq(rtTrace, LAMBDA e : e.kind = "attempt")

\* C36: after every failed attempt n (counted from 0), the last one
\* included, the fetcher sleeps 200 * 2^n ms plus a jitter in [0, 100) ms and
\* only then increments the counter; so no two attempts of one fetch follow
\* each other without a sleep between them, and every sleep is strictly
\* longer than the one before it.
C36_BackoffAfterEveryFailure ==
    /\ \A i \in 1..Len(rtTrace) :
          /\ (rtTrace[i].kind = "attempt" /\ i < Len(rtTrace))
                => rtTrace[i + 1].kind = "sleep" /\ rtTrace[i + 1].n = rtTrace[i].n
          /\ rtTrace[i].kind = "sleep"
                => /\ i > 1 /\ rtTrace[i - 1].kind = "attempt"
                   /\ rtTrace[i].ms >= 200 * TwoToThe(rtTrace[i].n)
                   /\ rtTrace[i].ms < 200 * TwoToThe(rtTrace[i].n) + 100
    /\ \A i \in 1..Len(Attempts) : Attempts[i].n = i - 1
    /\ \A i \in 1..(Len(Sleeps) - 1) : Sleeps[i].ms < Sleeps[i + 1].ms
    /\ rtPc = "sleeping" => rtAttempt = Len(Sleeps) - 1
    /\ rtPc \in {"attempting", "thrown"} => rtAttempt = Len(Sleeps)
    /\ rtPc = "thrown" => Len(Sleeps) = rtAttempts /\ Len(Attempts) = rtAttempts

\* Three attempts have failed and the loop has slept three times, the last
\* time after the last attempt.
C36_Witness ==
    /\ rtPc = "thrown"
    /\ rtAttempts = 3
    /\ Len(Sleeps) = 3
    /\ rtTrace[Len(rtTrace)].kind = "sleep"
    /\ rtTrace[Len(rtTrace)].n = 2

-----------------------------------------------------------------------------
(* The cache store shared by concurrent requests *)

\* The file requests whose cache key is k.
PathsOfKey(k) ==
    {p \in SharedPaths :
        FileCacheKey(env, Request("file", UnsignedUrl(p), Null, Null, Null)) = k}

\* The origin gave res in answer to a GET for one of the paths.
FromOriginFor(res, paths) ==
    /\ res.kind = "response"
    /\ \E p \in paths : res.body \in BodiesOf(p)

\* C37: under every interleaving of concurrent cachedS3Fetch calls and
\* purges, the entry the store holds under a key (and every entry on its way
\* into the store) is a response the origin gave to a request with that key,
\* and a request is answered only with a response of its own fetch or with
\* the entry it matched under its own key.
C37_EntriesStayWithTheirKey ==
    /\ \A k \in DOMAIN cacheStore : FromOriginFor(cacheStore[k], PathsOfKey(k))
    /\ \A p \in pendingPuts : FromOriginFor(p.entry, PathsOfKey(p.key))
    /\ \A s \in DOMAIN pc :
          (req[s].route = "file" /\ fetchResult[s].kind = "returned")
              => /\ FromOriginFor(fetchResult[s].response, {req[s].url.pathname})
                 /\ \/ /\ fetchLog[s] # <<>>
                       /\ fetchResult[s].response.body = fetchLog[s][Len(fetchLog[s])].body
                    \/ /\ fetchLog[s] = <<>>
                       /\ matched[s].outcome = "entry"
                       /\ fetchResult[s].response.body = matched[s].entry.body

\* The store holds both files, a purge has been executed by one request and
\* the other request has been answered from the cache.
C37_Witness ==
    /\ Cardinality(DOMAIN cacheStore) = 1
    /\ \E s, o \in DOMAIN pc :
          /\ s # o
          /\ pc[s] = "done" /\ executed[s] = "purge"
          /\ pc[o] = "done" /\ req[o].route = "file" /\ response[o].source = "cache-api"
          /\ FileCacheKey(env, req[o]) \notin DOMAIN cacheStore

-----------------------------------------------------------------------------
(* What validateAndSanitizePrefix returns *)

HasPair(s, a, b) == \E i \in 1..(Len(s) - 1) : s[i] = a /\ s[i + 1] = b

SegmentCount(s) == 1 + Cardinality({i \in 1..Len(s) : s[i] = Code("/")})

\* C38: every string validateAndSanitizePrefix returns for a non-empty input
\* has no '..' in it, no control character, no backslash and no '//', does
\* not start with '/', and has at most maxLength characters and at most
\* maxDepth segments between slashes.
C38_ReturnedPrefixIsClean ==
    (pxResult.called /\ pxResult.result.ok /\ pxPrefix # <<>>)
        => LET out == pxResult.result.value
           IN  /\ ~HasPair(out, Code("."), Code("."))
               /\ \A i \in 1..Len(out) : out[i] >= 32 /\ out[i] # 127 /\ out[i] # Code("\\")
               /\ ~HasPair(out, Code("/"), Code("/"))
               /\ (out # <<>> => out[1] # Code("/"))
               /\ Len(out) <= PxMaxLength
               /\ (out # <<>> => SegmentCount(out) <= PxMaxDepth)

-----------------------------------------------------------------------------
(* Start-up validation *)

C40_AcceptedTtlBoundsAreOrdered ==
    evLast = "returned" =>
        getCacheConfig(env).minTtlSeconds <= getCacheConfig(env).maxTtlSeconds

\* An accepted environment that sets only the upper bound, to the lowest
\* value the schema allows: the lower bound is the default.
C40_Witness ==
    /\ evLast = "returned"
    /\ env.CACHE_MIN_TTL_SECONDS.kind = "undefined"
    /\ env.CACHE_MAX_TTL_SECONDS.kind = "number"
    /\ getCacheConfig(env).maxTtlSeconds = 60
    /\ getCacheConfig(env).minTtlSeconds = 60

====
